---- MODULE Spec2Model ----
(***************************************************************************)
(* glab (PhilipKram/Gitlab-CLI): OAuth2 login flow, credential store and   *)
(* session resolver.                                                       *)
(*                                                                         *)
(* The specifications of this module:                                      *)
(*   Spec       the credential store (hosts.json), the session resolver    *)
(*              (api.NewClient / refreshOAuthTokenIfNeeded), the token     *)
(*              refresher and the store-writing commands;                  *)
(*   LoginSpec  one or more sequential auth.OAuthFlow attempts with the    *)
(*              local callback listener of waitForCallback, its handler    *)
(*              goroutines, channels, timers and shutdown;                 *)
(*   FairLoginSpec  LoginSpec with the fairness the Go scheduler and the   *)
(*              runtime timers give.                                       *)
(*   CommandSpec    the commands that take a token for the API             *)
(*              (api.NewClient, glab api, glab auth token);                *)
(*   FactorySpec    the factory's client (cmdutil.NewFactory) and          *)
(*              auth.GetStatus;                                            *)
(*   StoreFileSpec  config.SaveHosts and config.LoadHosts on hosts.json;   *)
(*   RouteSpec  one OAuthFlow attempt with any redirect URI, the requests  *)
(*              to its listener all on other paths than the callback path; *)
(*   ConfigSpec glab config set / get / list on config.json;               *)
(*   RaceSpec   invocations that load, update and save hosts.json at the   *)
(*              same time.                                                 *)
(***************************************************************************)
EXTENDS Integers, Sequences, FiniteSets, Bags, TLC

VARIABLES
    hostsFile,   \* hosts.json on disk: [kind, data]
    now,         \* time.Now().Unix()
    envToken,    \* GITLAB_TOKEN / GLAB_TOKEN ("" when unset)
    last,        \* the last completed operation, its inputs and its results
    ops,         \* number of operations run on the store so far
    attempt,     \* number of the current auth.OAuthFlow call
    pc,          \* where the goroutine running OAuthFlow / waitForCallback is
    flowErr,     \* the error OAuthFlow returned ("" for none)
    listener,    \* the net.Listener of the attempt: "none", "bound", "closed"
    server,      \* the goroutine of server.Serve: "off", "serving", "failed", "stopped"
    expected,    \* the state generated by each attempt so far
    urlShown,    \* the authorization URL was opened or printed
    codeCh,      \* chan string, capacity 1
    errCh,       \* chan error, capacity 1
    backlog,     \* connections made to the bound address and not yet served
    handlers,    \* the handler goroutines that have reached their channel send
    arrived,     \* number of callback requests of this attempt so far
    accepted,    \* number of them answered as successful or queued as an error
    wfcOut,      \* what waitForCallback returns
    graceOver,   \* the context of server.Shutdown is done
    log,         \* <<n, state, passed>>: the state checks made so far, n the
                 \* index in expected of the state of the attempt
    early,       \* a callback reached the address before it was bound
    tainted,     \* a mismatching request was handled before the caller took a result
    tokenResp,   \* the token response exchangeCode returned
    exchange,    \* the call of exchangeCode: the reply it got and its outcome
    pkce,        \* codeVerifier and codeChallenge of the attempt, the
                 \* parameters of the authorization URL, the verifier posted
    redirectPath, \* u.Path of the redirect URI OAuthFlow is called with
    configFile,  \* config.json on disk: [kind, data]
    procs        \* the invocations of glab running at the same time, each
                 \* with the hosts.json it has read and the update it makes

storeVars == <<hostsFile, now, envToken, last, ops>>
loginVars == <<attempt, pc, flowErr, listener, server, expected, urlShown,
               codeCh, errCh, backlog, handlers, arrived, accepted, wfcOut,
               graceOver, log, early, tainted, tokenResp, exchange, pkce,
               redirectPath>>
auxVars == <<configFile, procs>>
vars == <<storeVars, loginVars, auxVars>>

(***************************************************************************)
(* Bounds                                                                  *)
(***************************************************************************)
MaxTick == 1
MaxOps == 2
MaxAttempts == 2
MaxRequests == 2

\* the instants the clock of an invocation can show
Clock == 1000 .. (1000 + MaxTick)

Hosts == {"gitlab.com", "gitlab.test.local"}

(***************************************************************************)
(* HostConfig and its JSON form                                            *)
(***************************************************************************)
Fields ==
    {"token", "refresh_token", "token_expires_at", "token_created_at", "user",
     "protocol", "api_host", "auth_method", "client_id", "redirect_uri",
     "oauth_scopes"}

IntFields == {"token_expires_at", "token_created_at"}

\* Go zero value of a field
Zero(f) == IF f \in IntFields THEN 0 ELSE ""

\* &config.HostConfig{}
HostConfig == [f \in Fields |-> Zero(f)]

EmptyMap == [h \in {} |-> HostConfig]

\* Marshal of a HostConfig that has no refresh-token fields
MarshalWithoutRefreshFields(hc) ==
    [f \in {g \in Fields \ {"refresh_token", "token_expires_at",
                              "token_created_at"} :
                g = "token" \/ hc[g] # Zero(g)} |-> hc[f]]

\* json.Marshal of one HostConfig: "token" always, every other field omitempty
Marshal(hc) ==
    [f \in {g \in Fields : g = "token" \/ hc[g] # Zero(g)} |-> hc[f]]

\* Unmarshal with the client_id key not read into the struct
UnmarshalWithoutClientID(obj) ==
    [f \in Fields |-> IF f \in DOMAIN obj /\ f # "client_id" THEN obj[f]
                      ELSE Zero(f)]

\* json.Unmarshal into a fresh HostConfig: absent keys keep the zero value
Unmarshal(obj) ==
    [f \in Fields |-> IF f \in DOMAIN obj THEN obj[f] ELSE Zero(f)]

MissingFile == [kind |-> "missing", data |-> EmptyMap]
CorruptFile == [kind |-> "corrupt", data |-> EmptyMap]

\* LoadHosts with a missing file reported as an error
LoadHostsMissingFileFails(file) ==
    [err   |-> file.kind # "json",
     hosts |-> IF file.kind = "json"
               THEN [h \in DOMAIN file.data |-> Unmarshal(file.data[h])]
               ELSE EmptyMap]

\* config.LoadHosts: a missing file is an empty map, an unreadable or
\* unparsable file is an error
LoadHosts(file) ==
    [err   |-> file.kind = "corrupt",
     hosts |-> IF file.kind = "json"
               THEN [h \in DOMAIN file.data |-> Unmarshal(file.data[h])]
               ELSE EmptyMap]

\* config.SaveHosts: the whole map is marshalled and the file rewritten
SaveHosts(hosts) ==
    [kind |-> "json", data |-> [h \in DOMAIN hosts |-> Marshal(hosts[h])]]

\* config.GetHostValue(host, key) on a given file, the zero value when the
\* file or the record is not there
Stored(file, host, key) ==
    IF file.kind = "json" /\ host \in DOMAIN file.data
       /\ key \in DOMAIN file.data[host]
    THEN file.data[host][key]
    ELSE Zero(key)

HasRecord(file, host) == file.kind = "json" /\ host \in DOMAIN file.data

\* m[k] = v for a Go map
MapSet(m, k, v) == [x \in (DOMAIN m) \cup {k} |-> IF x = k THEN v ELSE m[x]]

\* delete(m, k)
MapDelete(m, k) == [x \in (DOMAIN m) \ {k} |-> m[x]]

(***************************************************************************)
(* Token endpoint (POST https://<host>/oauth/token)                        *)
(***************************************************************************)
\* what one POST to the token endpoint can produce: a transport error, a
\* non-2xx status, a 2xx body that is not a token response, a token response
Response(kind, access, refresh, expiresIn, createdAt) ==
    [kind |-> kind, access_token |-> access, refresh_token |-> refresh,
     expires_in |-> expiresIn, created_at |-> createdAt]

Responses(t) ==
    {Response(k, "", "", 0, 0) : k \in {"neterr", "http401", "badjson"}}
    \cup {Response("ok", "new-token", "new-refresh", e, c) :
            e \in {7200}, c \in {t, t - 1}}

(***************************************************************************)
(* Token refresher                                                         *)
(***************************************************************************)
\* a refresher that forgets the stored tokens of the host when the token
\* endpoint does not answer with a token response
RefreshClearsTokensOnFailure(file, host, resp) ==
    LET ld == LoadHosts(file)
        fail(e, n) == [token |-> "", err |-> e, file |-> file, posts |-> n]
        wiped(e) ==
            [token |-> "", err |-> e, posts |-> 1,
             file |-> SaveHosts(MapSet(ld.hosts, host,
                         [ld.hosts[host] EXCEPT !.token = "",
                                                !.refresh_token = ""]))]
    IN  IF ld.err THEN fail("loading hosts config", 0)
        ELSE IF host \notin DOMAIN ld.hosts THEN fail("no configuration for host", 0)
        ELSE LET hc == ld.hosts[host] IN
             IF hc.auth_method # "oauth" \/ hc.refresh_token = ""
             THEN fail("no refresh token stored", 0)
             ELSE IF resp.kind = "neterr" THEN wiped("requesting token refresh")
             ELSE IF resp.kind = "http401" THEN wiped("token refresh failed (HTTP 401)")
             ELSE IF resp.kind = "badjson" THEN wiped("parsing token refresh response")
             ELSE LET merged == [hc EXCEPT
                                   !.token = resp.access_token,
                                   !.refresh_token = resp.refresh_token,
                                   !.token_created_at = resp.created_at,
                                   !.token_expires_at = resp.created_at + resp.expires_in]
                  IN  [token |-> resp.access_token, err |-> "",
                       file  |-> SaveHosts(MapSet(ld.hosts, host, merged)),
                       posts |-> 1]

\* auth.RefreshOAuthToken(host): [token, err, file, posts]
RefreshOAuthToken(file, host, resp) ==
    LET ld == LoadHosts(file)
        fail(e, n) == [token |-> "", err |-> e, file |-> file, posts |-> n]
    IN  IF ld.err THEN fail("loading hosts config", 0)
        ELSE IF host \notin DOMAIN ld.hosts THEN fail("no configuration for host", 0)
        ELSE LET hc == ld.hosts[host] IN
             IF hc.auth_method # "oauth" \/ hc.refresh_token = ""
             THEN fail("no refresh token stored", 0)
             ELSE IF resp.kind = "neterr" THEN fail("requesting token refresh", 1)
             ELSE IF resp.kind = "http401" THEN fail("token refresh failed (HTTP 401)", 1)
             ELSE IF resp.kind = "badjson" THEN fail("parsing token refresh response", 1)
             ELSE LET merged == [hc EXCEPT
                                   !.token = resp.access_token,
                                   !.refresh_token = resp.refresh_token,
                                   !.token_created_at = resp.created_at,
                                   !.token_expires_at = resp.created_at + resp.expires_in]
                  IN  [token |-> resp.access_token, err |-> "",
                       file  |-> SaveHosts(MapSet(ld.hosts, host, merged)),
                       posts |-> 1]

(***************************************************************************)
(* Session resolver                                                        *)
(***************************************************************************)
ExpiryBuffer == 300

\* refreshOAuthTokenIfNeeded(host, currentToken):
\* [token, file, attempted, posts]
KeepToken(file, currentToken) ==
    [token |-> currentToken, file |-> file, attempted |-> FALSE, posts |-> 0]

\* the resolver with the boundary instant left out of the refresh window
refreshStrictlyInsideBuffer(file, host, currentToken, t, resp) ==
    LET ld == LoadHosts(file) IN
    IF ld.err THEN KeepToken(file, currentToken)
    ELSE IF host \notin DOMAIN ld.hosts THEN KeepToken(file, currentToken)
    ELSE IF ld.hosts[host].token_expires_at = 0 THEN KeepToken(file, currentToken)
    ELSE IF t <= ld.hosts[host].token_expires_at - ExpiryBuffer
         THEN KeepToken(file, currentToken)
    ELSE LET r == RefreshOAuthToken(file, host, resp) IN
         [token |-> IF r.err # "" THEN currentToken ELSE r.token,
          file |-> r.file, attempted |-> TRUE, posts |-> r.posts]

\* the resolver handing on whatever the refresher returned, failed or not
refreshReturnsRefresherToken(file, host, currentToken, t, resp) ==
    LET ld == LoadHosts(file) IN
    IF ld.err THEN KeepToken(file, currentToken)
    ELSE IF host \notin DOMAIN ld.hosts THEN KeepToken(file, currentToken)
    ELSE IF ld.hosts[host].token_expires_at = 0 THEN KeepToken(file, currentToken)
    ELSE IF t < ld.hosts[host].token_expires_at - ExpiryBuffer
         THEN KeepToken(file, currentToken)
    ELSE LET r == RefreshOAuthToken(file, host, resp) IN
         [token |-> r.token, file |-> r.file, attempted |-> TRUE,
          posts |-> r.posts]

\* the resolver refreshing the store but returning the token it was given
refreshKeepsGivenToken(file, host, currentToken, t, resp) ==
    LET ld == LoadHosts(file) IN
    IF ld.err THEN KeepToken(file, currentToken)
    ELSE IF host \notin DOMAIN ld.hosts THEN KeepToken(file, currentToken)
    ELSE IF ld.hosts[host].token_expires_at = 0 THEN KeepToken(file, currentToken)
    ELSE IF t < ld.hosts[host].token_expires_at - ExpiryBuffer
         THEN KeepToken(file, currentToken)
    ELSE LET r == RefreshOAuthToken(file, host, resp) IN
         [token |-> currentToken, file |-> r.file, attempted |-> TRUE,
          posts |-> r.posts]

\* the resolver refreshing every record that has an expiry, near or far
refreshIgnoresBuffer(file, host, currentToken, t, resp) ==
    LET ld == LoadHosts(file) IN
    IF ld.err THEN KeepToken(file, currentToken)
    ELSE IF host \notin DOMAIN ld.hosts THEN KeepToken(file, currentToken)
    ELSE IF ld.hosts[host].token_expires_at = 0 THEN KeepToken(file, currentToken)
    ELSE LET r == RefreshOAuthToken(file, host, resp) IN
         IF r.err # ""
         THEN [token |-> currentToken, file |-> r.file, attempted |-> TRUE,
               posts |-> r.posts]
         ELSE [token |-> r.token, file |-> r.file, attempted |-> TRUE,
               posts |-> r.posts]

refreshOAuthTokenIfNeeded(file, host, currentToken, t, resp) ==
    LET ld == LoadHosts(file) IN
    IF ld.err THEN KeepToken(file, currentToken)
    ELSE IF host \notin DOMAIN ld.hosts THEN KeepToken(file, currentToken)
    ELSE IF ld.hosts[host].token_expires_at = 0 THEN KeepToken(file, currentToken)
    ELSE IF t < ld.hosts[host].token_expires_at - ExpiryBuffer
         THEN KeepToken(file, currentToken)
    ELSE LET r == RefreshOAuthToken(file, host, resp) IN
         IF r.err # ""
         THEN [token |-> currentToken, file |-> r.file, attempted |-> TRUE,
               posts |-> r.posts]
         ELSE [token |-> r.token, file |-> r.file, attempted |-> TRUE,
               posts |-> r.posts]

\* config.TokenForHost(host): the environment wins over the store
TokenForHost(file, env, host) ==
    IF env # "" THEN env
    ELSE LET ld == LoadHosts(file) IN
         IF ld.err THEN ""
         ELSE IF host \in DOMAIN ld.hosts THEN ld.hosts[host].token ELSE ""

\* config.AuthMethodForHost(host)
AuthMethodForHost(file, host) ==
    LET ld == LoadHosts(file) IN
    IF ld.err THEN ""
    ELSE IF host \in DOMAIN ld.hosts THEN ld.hosts[host].auth_method ELSE ""

\* NewClient handing every stored token to the resolver, whatever the
\* authMethod of the record
NewClientResolvesAnyMethod(file, env, host, t, resp) ==
    LET token == TokenForHost(file, env, host) IN
    IF token = ""
    THEN [err |-> "not authenticated", client |-> "none", token |-> "",
          file |-> file, attempted |-> FALSE, posts |-> 0]
    ELSE LET r == refreshOAuthTokenIfNeeded(file, host, token, t, resp) IN
         [err |-> "",
          client |-> IF AuthMethodForHost(file, host) = "oauth"
                     THEN "oauth" ELSE "token",
          token |-> r.token, file |-> r.file, attempted |-> r.attempted,
          posts |-> r.posts]

\* api.NewClient(host): [err, client, token, file, attempted, posts]
NewClient(file, env, host, t, resp) ==
    LET token == TokenForHost(file, env, host) IN
    IF token = ""
    THEN [err |-> "not authenticated", client |-> "none", token |-> "",
          file |-> file, attempted |-> FALSE, posts |-> 0]
    ELSE IF AuthMethodForHost(file, host) = "oauth"
         THEN LET r == refreshOAuthTokenIfNeeded(file, host, token, t, resp) IN
              [err |-> "", client |-> "oauth", token |-> r.token,
               file |-> r.file, attempted |-> r.attempted, posts |-> r.posts]
         ELSE [err |-> "", client |-> "token", token |-> token,
               file |-> file, attempted |-> FALSE, posts |-> 0]

(***************************************************************************)
(* Commands that read a token                                              *)
(***************************************************************************)
\* auth.GetToken(host), behind `glab auth token`: [err, token]
GetToken(file, env, host) ==
    LET token == TokenForHost(file, env, host) IN
    [err |-> IF token = "" THEN "no token found" ELSE "", token |-> token]

\* the RunE of `glab api` up to the request it sends: flag is the value of
\* --hostname ("" when not given), remote the host the factory's client is
\* built for; [err, host, token, file, attempted, posts]
APICommand(file, env, flag, remote, t, resp) ==
    LET c == IF flag = "" THEN NewClient(file, env, remote, t, resp)
             ELSE [err |-> "", client |-> "none", token |-> "", file |-> file,
                   attempted |-> FALSE, posts |-> 0]
        host == IF flag # "" THEN flag
                ELSE IF c.err = "" THEN remote ELSE "gitlab.com"
        token == TokenForHost(c.file, env, host)
    IN  [err |-> IF token = "" THEN "not authenticated" ELSE "",
         host |-> host, token |-> token, file |-> c.file,
         attempted |-> c.attempted, posts |-> c.posts]

\* config.DefaultHost() with GITLAB_HOST unset
DefaultHost == "gitlab.com"

\* the orders in which `for host := range hosts` can visit the keys of a map
Orders(keys) ==
    {o \in [1..Cardinality(keys) -> keys] : \A k \in keys : \E i \in DOMAIN o : o[i] = k}

NoClient(file) ==
    [err |-> "not authenticated with any host", client |-> "none",
     token |-> "", file |-> file, attempted |-> FALSE, posts |-> 0,
     host |-> ""]

WithHost(c, host) ==
    [err |-> c.err, client |-> c.client, token |-> c.token, file |-> c.file,
     attempted |-> c.attempted, posts |-> c.posts, host |-> host]

\* api.NewClientFromHosts(), the map visited in the given order: the first
\* host NewClient makes a client for
RECURSIVE FirstClient(_, _, _, _, _)
FirstClient(file, env, order, t, resp) ==
    IF order = <<>> THEN NoClient(file)
    ELSE LET c == NewClient(file, env, Head(order), t, resp) IN
         IF c.err = "" THEN WithHost(c, Head(order))
         ELSE FirstClient(file, env, Tail(order), t, resp)

NewClientFromHosts(file, env, order, t, resp) ==
    LET ld == LoadHosts(file) IN
    IF ld.err \/ DOMAIN ld.hosts = {} THEN NoClient(file)
    ELSE FirstClient(file, env, order, t, resp)

\* Factory.Client without the fallback to the stored hosts
FactoryClientRemoteOrDefault(file, env, override, remote, order, t, resp) ==
    IF override # ""
    THEN WithHost(NewClient(file, env, override, t, resp), override)
    ELSE IF remote = ""
    THEN WithHost(NewClient(file, env, DefaultHost, t, resp), DefaultHost)
    ELSE WithHost(NewClient(file, env, remote, t, resp), remote)

\* Factory.Client: override is the host of --repo ("" when not given),
\* remote the host of the git remote ("" when f.Remote() fails), order the
\* order the stored hosts are visited in; [err, client, token, file,
\* attempted, posts, host]
FactoryClient(file, env, override, remote, order, t, resp) ==
    IF override # ""
    THEN WithHost(NewClient(file, env, override, t, resp), override)
    ELSE LET r == NewClient(file, env, remote, t, resp)
             d == NewClient(file, env, DefaultHost, t, resp)
         IN  IF remote # "" /\ r.err = "" THEN WithHost(r, remote)
             ELSE IF d.err = "" THEN WithHost(d, DefaultHost)
             ELSE NewClientFromHosts(file, env, order, t, resp)

\* the text of a token
TokenText(token) ==
    CASE token = "current-token" ->
           <<"c", "u", "r", "r", "e", "n", "t", "-", "t", "o", "k", "e", "n">>
      [] token = "new-token" ->
           <<"n", "e", "w", "-", "t", "o", "k", "e", "n">>
      [] token = "env-provided-token" ->
           <<"e", "n", "v", "-", "p", "r", "o", "v", "i", "d", "e", "d", "-",
             "t", "o", "k", "e", "n">>
      [] token = "short" -> <<"s", "h", "o", "r", "t">>
      [] OTHER -> <<>>

\* auth.maskToken
maskToken(token) ==
    IF Len(token) <= 8 THEN <<"*", "*", "*", "*">>
    ELSE SubSeq(token, 1, 4) \o <<"*", "*", "*", "*">>
         \o SubSeq(token, Len(token) - 3, Len(token))

\* auth.Status
Status(host, user, token, source) ==
    [Host |-> host, User |-> user, Token |-> token, Source |-> source,
     Active |-> TRUE, HasError |-> FALSE, Error |-> ""]

\* auth.GetStatus(): gitlabToken is the value of GITLAB_TOKEN, user what
\* Users.CurrentUser answers for it ("" when the call fails); the slice it
\* returns as the set of its elements: [statuses, err]
GetStatus(file, gitlabToken, user) ==
    LET fromEnv ==
            IF gitlabToken = "" THEN {}
            ELSE {[Status(DefaultHost, user,
                          maskToken(TokenText(gitlabToken)), "GITLAB_TOKEN")
                     EXCEPT !.HasError = (user = ""),
                            !.Error = IF user = "" THEN "401 Unauthorized"
                                      ELSE ""]}
        ld == LoadHosts(file)
        all == fromEnv \cup
               {Status(h, ld.hosts[h].user,
                       maskToken(TokenText(ld.hosts[h].token)), h) :
                  h \in DOMAIN ld.hosts}
    IN  IF ld.err
        THEN IF fromEnv # {} THEN [statuses |-> fromEnv, err |-> ""]
             ELSE [statuses |-> {}, err |-> "no authenticated hosts"]
        ELSE IF all = {}
        THEN [statuses |-> {},
              err |-> "no authenticated hosts; run 'glab auth login' to authenticate"]
        ELSE [statuses |-> all, err |-> ""]

(***************************************************************************)
(* Commands that write the store                                           *)
(***************************************************************************)
\* auth.Login(host, token, stdin) once the token has been read:
\* [err, file]; valid is the outcome of the CurrentUser call
Login(file, host, token, valid, user) ==
    IF token = "" THEN [err |-> "no token provided", file |-> file]
    ELSE IF ~valid THEN [err |-> "authenticating", file |-> file]
    ELSE LET ld == LoadHosts(file)
             hosts == IF ld.err THEN EmptyMap ELSE ld.hosts
             hc == [HostConfig EXCEPT !.token = token, !.user = user]
         IN  [err |-> "", file |-> SaveHosts(MapSet(hosts, host, hc))]

\* auth.OAuthFlow, "Save credentials": the new token is merged into the
\* record of the host
SaveCredentials(file, host, access, user) ==
    LET ld == LoadHosts(file)
        hosts == IF ld.err THEN EmptyMap ELSE ld.hosts
        hc == IF host \in DOMAIN hosts THEN hosts[host] ELSE HostConfig
        merged == [hc EXCEPT !.token = access, !.user = user,
                             !.auth_method = "oauth"]
    IN  SaveHosts(MapSet(hosts, host, merged))

\* auth.Logout(host): [err, file]
Logout(file, host) ==
    LET ld == LoadHosts(file) IN
    IF ld.err THEN [err |-> "loading hosts config", file |-> file]
    ELSE IF host \notin DOMAIN ld.hosts THEN [err |-> "not logged in", file |-> file]
    ELSE [err |-> "", file |-> SaveHosts(MapDelete(ld.hosts, host))]

HostKeys == {"client_id", "redirect_uri", "protocol", "api_host"}

\* config.SetHostValue(host, key, value): [err, file]
SetHostValue(file, host, key, value) ==
    LET ld == LoadHosts(file)
        hosts == IF ld.err THEN EmptyMap ELSE ld.hosts
        hc == IF host \in DOMAIN hosts THEN hosts[host] ELSE HostConfig
    IN  IF key \notin HostKeys THEN [err |-> "unknown host config key", file |-> file]
        ELSE [err |-> "",
              file |-> SaveHosts(MapSet(hosts, host, [hc EXCEPT ![key] = value]))]

(***************************************************************************)
(* The store specification                                                 *)
(***************************************************************************)
NoResponse == Response("none", "", "", 0, 0)

\* what a call of NewClient leaves to compare the next call for the same
\* host with: the token it returned and whether its refresh attempt failed
NoPrior == [any |-> FALSE, token |-> "", posts |-> 0, failed |-> FALSE]

Prior(op, host) ==
    IF op = "NewClient" /\ last.op = "NewClient" /\ last.host = host
    THEN [any |-> TRUE, token |-> last.token, posts |-> last.posts,
          failed |-> last.attempted
                     /\ ~(last.posts = 1 /\ last.resp.kind = "ok")]
    ELSE NoPrior

Done(op, host, given, resp, token, err, attempted, posts) ==
    [op |-> op, host |-> host, given |-> given, pre |-> hostsFile, at |-> now,
     env |-> envToken, resp |-> IF posts > 0 THEN resp ELSE NoResponse,
     token |-> token, err |-> err,
     attempted |-> attempted, posts |-> posts, prior |-> Prior(op, host)]

\* the records a hosts.json can hold before the invocations modelled here
StoredRecord(method, refresh, expires) ==
    [HostConfig EXCEPT
        !.token = "current-token", !.refresh_token = refresh,
        !.token_expires_at = expires,
        !.token_created_at = IF expires = 0 THEN 0 ELSE expires - 7200,
        !.user = "testuser", !.auth_method = method,
        !.client_id = "client-id", !.oauth_scopes = "api read_user"]

StoredExpiries == {0, 700, 1300, 1301, 9000}

StoredRecords ==
    {StoredRecord(m, r, e) :
        m \in {"oauth", "pat"}, r \in {"", "refresh-token"},
        e \in StoredExpiries}

OtherRecords == {StoredRecord("pat", "", 0)}

StoreFiles ==
    {MissingFile, CorruptFile}
    \cup {SaveHosts(EmptyMap)}
    \cup {SaveHosts([h \in {"gitlab.test.local"} |-> r]) : r \in StoredRecords}
    \cup {SaveHosts([h \in Hosts |->
                        IF h = "gitlab.test.local" THEN r ELSE o]) :
            r \in StoredRecords, o \in OtherRecords}

StoreInit ==
    /\ hostsFile \in StoreFiles
    /\ now = 1000
    /\ envToken \in {"", "env-provided-token"}
    /\ last = [op |-> "none", host |-> "", given |-> "", pre |-> hostsFile,
               at |-> now, env |-> envToken, resp |-> NoResponse, token |-> "",
               err |-> "", attempted |-> FALSE, posts |-> 0,
               prior |-> NoPrior]
    /\ ops = 0

\* a command builds its API client
DoNewClient ==
    /\ ops < MaxOps
    /\ ops' = ops + 1
    /\ \E h \in Hosts, resp \in Responses(now) :
        LET r == NewClient(hostsFile, envToken, h, now, resp) IN
        /\ hostsFile' = r.file
        /\ last' = Done("NewClient", h, "", resp, r.token, r.err, r.attempted, r.posts)
        /\ UNCHANGED <<now, envToken>>

\* the resolver called with a token of the caller's
DoResolve ==
    /\ ops < MaxOps
    /\ ops' = ops + 1
    /\ \E h \in Hosts, tok \in {"current-token", "env-provided-token"},
       resp \in Responses(now) :
        LET r == refreshOAuthTokenIfNeeded(hostsFile, h, tok, now, resp) IN
        /\ hostsFile' = r.file
        /\ last' = Done("Resolve", h, tok, resp, r.token, "", r.attempted, r.posts)
        /\ UNCHANGED <<now, envToken>>

\* the refresher called on its own
DoRefresh ==
    /\ ops < MaxOps
    /\ ops' = ops + 1
    /\ \E h \in Hosts, resp \in Responses(now) :
        LET r == RefreshOAuthToken(hostsFile, h, resp) IN
        /\ hostsFile' = r.file
        /\ last' = Done("Refresh", h, "", resp, r.token, r.err, TRUE, r.posts)
        /\ UNCHANGED <<now, envToken>>

\* glab auth login --token
DoLogin ==
    /\ ops < MaxOps
    /\ ops' = ops + 1
    /\ \E h \in Hosts, tok \in {"", "pat-token"}, valid \in BOOLEAN :
        LET r == Login(hostsFile, h, tok, valid, "bob") IN
        /\ hostsFile' = r.file
        /\ last' = Done("Login", h, tok, NoResponse, "", r.err, FALSE, 0)
        /\ UNCHANGED <<now, envToken>>

\* glab auth logout
DoLogout ==
    /\ ops < MaxOps
    /\ ops' = ops + 1
    /\ \E h \in Hosts :
        LET r == Logout(hostsFile, h) IN
        /\ hostsFile' = r.file
        /\ last' = Done("Logout", h, "", NoResponse, "", r.err, FALSE, 0)
        /\ UNCHANGED <<now, envToken>>

\* glab config set --host
DoSetHostValue ==
    /\ ops < MaxOps
    /\ ops' = ops + 1
    /\ \E h \in Hosts, k \in {"client_id", "token"} :
        LET r == SetHostValue(hostsFile, h, k, "my-client-id") IN
        /\ hostsFile' = r.file
        /\ last' = Done("SetHostValue", h, k, NoResponse, "", r.err, FALSE, 0)
        /\ UNCHANGED <<now, envToken>>

\* glab auth token
DoGetToken ==
    /\ ops < MaxOps
    /\ ops' = ops + 1
    /\ \E h \in Hosts :
        LET r == GetToken(hostsFile, envToken, h) IN
        /\ last' = Done("GetToken", h, "", NoResponse, r.token, r.err, FALSE, 0)
        /\ UNCHANGED <<hostsFile, now, envToken>>

\* glab api <endpoint>, with or without --hostname
DoAPI ==
    /\ ops < MaxOps
    /\ ops' = ops + 1
    /\ \E flag \in Hosts \cup {""}, remote \in Hosts, resp \in Responses(now) :
        LET r == APICommand(hostsFile, envToken, flag, remote, now, resp) IN
        /\ flag # "" => (remote = flag /\ resp.kind = "neterr")
        /\ hostsFile' = r.file
        /\ last' = Done("API", r.host, flag, resp, r.token, r.err, r.attempted,
                        r.posts)
        /\ UNCHANGED <<now, envToken>>

\* a command asks the factory for its client
DoFactoryClient ==
    /\ ops < MaxOps
    /\ ops' = ops + 1
    /\ \E override \in Hosts \cup {""}, remote \in Hosts \cup {""},
          order \in Orders(DOMAIN LoadHosts(hostsFile).hosts),
          resp \in Responses(now) :
        LET r == FactoryClient(hostsFile, envToken, override, remote, order,
                               now, resp)
        IN
        /\ override # "" => remote = ""
        /\ hostsFile' = r.file
        /\ last' = Done("FactoryClient", r.host, override, resp, r.token,
                        r.err, r.attempted, r.posts)
                     @@ [remote |-> remote, order |-> order]
        /\ UNCHANGED <<now, envToken>>

\* glab auth status; the token of the environment is in GITLAB_TOKEN or in
\* GLAB_TOKEN
DoGetStatus ==
    /\ ops < MaxOps
    /\ ops' = ops + 1
    /\ \E name \in {"GITLAB_TOKEN", "GLAB_TOKEN"}, user \in {"", "testuser"} :
        LET gitlabToken == IF name = "GITLAB_TOKEN" THEN envToken ELSE ""
            r == GetStatus(hostsFile, gitlabToken, user)
        IN
        /\ gitlabToken = "" => user = ""
        /\ envToken = "" => name = "GITLAB_TOKEN"
        /\ last' = Done("GetStatus", "", "", NoResponse, "", r.err, FALSE, 0)
                     @@ [statuses |-> r.statuses, gitlabToken |-> gitlabToken]
        /\ UNCHANGED <<hostsFile, now, envToken>>

\* time passes between two operations
Tick ==
    /\ now + 1 \in Clock
    /\ now' = now + 1
    /\ UNCHANGED <<hostsFile, envToken, last, ops>>

(***************************************************************************)
(* Code exchange (POST https://<host>/oauth/token)                         *)
(***************************************************************************)
\* what http.PostForm and io.ReadAll give exchangeCode: a transport error, or
\* a status with a body that is a token response in JSON or is not JSON
HTTPReply(transport, status, json, resp) ==
    [transport |-> transport, status |-> status, json |-> json, resp |-> resp]

StatusOK == 200

Statuses == {StatusOK, 201, 401}

Replies(t) ==
    {HTTPReply("error", 0, FALSE, NoResponse)}
    \cup {HTTPReply("ok", st, FALSE, NoResponse) : st \in Statuses}
    \cup {HTTPReply("ok", st, TRUE,
                    Response("ok", "new-token", "new-refresh", 7200, t)) :
            st \in Statuses}

NoExchange ==
    [reply |-> HTTPReply("none", 0, FALSE, NoResponse), err |-> "",
     resp |-> NoResponse, posts |-> 0]

\* exchangeCode taking every 2xx status as a success
exchangeCodeAny2xx(reply) ==
    LET out(e, r) == [reply |-> reply, err |-> e, resp |-> r, posts |-> 1] IN
    IF reply.transport # "ok" THEN out("requesting token", NoResponse)
    ELSE IF reply.status \notin 200 .. 299
    THEN out("token exchange failed", NoResponse)
    ELSE IF ~reply.json THEN out("parsing token response", NoResponse)
    ELSE out("", reply.resp)

\* exchangeCode(host, clientID, code, redirectURI, codeVerifier) for the reply
\* its one http.PostForm gets: [reply, err, resp, posts]
exchangeCode(reply) ==
    LET out(e, r) == [reply |-> reply, err |-> e, resp |-> r, posts |-> 1] IN
    IF reply.transport # "ok" THEN out("requesting token", NoResponse)
    ELSE IF reply.status # StatusOK
    THEN out("token exchange failed", NoResponse)
    ELSE IF ~reply.json THEN out("parsing token response", NoResponse)
    ELSE out("", reply.resp)

(***************************************************************************)
(* PKCE: generateCodeVerifier, generateCodeChallenge, buildAuthURL         *)
(*                                                                         *)
(* A Go string is a sequence of one-character strings, a []byte a sequence *)
(* of numbers in 0..255.                                                   *)
(***************************************************************************)
\* encoding/base64: the alphabet of URLEncoding and RawURLEncoding
encodeURL ==
    << "A", "B", "C", "D", "E", "F", "G", "H", "I", "J", "K", "L", "M",
       "N", "O", "P", "Q", "R", "S", "T", "U", "V", "W", "X", "Y", "Z",
       "a", "b", "c", "d", "e", "f", "g", "h", "i", "j", "k", "l", "m",
       "n", "o", "p", "q", "r", "s", "t", "u", "v", "w", "x", "y", "z",
       "0", "1", "2", "3", "4", "5", "6", "7", "8", "9", "-", "_" >>

\* encoding/base64 (*Encoding).EncodeToString: three bytes give four
\* characters; a last group of one or two bytes gives two or three, filled up
\* to four with "=" when the encoding pads
RECURSIVE EncodeToString(_, _)
EncodeToString(padding, src) ==
    LET c(n) == encodeURL[n + 1]
        pad(k) == IF padding THEN [i \in 1..k |-> "="] ELSE <<>>
    IN  IF Len(src) = 0 THEN <<>>
        ELSE IF Len(src) = 1
        THEN <<c(src[1] \div 4), c((src[1] % 4) * 16)>> \o pad(2)
        ELSE IF Len(src) = 2
        THEN LET v == src[1] * 256 + src[2] IN
             <<c(v \div 1024), c((v \div 16) % 64), c((v % 16) * 4)>>
                 \o pad(1)
        ELSE LET v == src[1] * 65536 + src[2] * 256 + src[3] IN
             <<c(v \div 262144), c((v \div 4096) % 64), c((v \div 64) % 64),
               c(v % 64)>>
                 \o EncodeToString(padding, SubSeq(src, 4, Len(src)))

\* []byte(s) for a string over the alphabet above (ASCII)
Bytes(s) ==
    LET n(ch) == (CHOOSE i \in 1..64 : encodeURL[i] = ch) - 1
        code(k) == IF k < 26 THEN 65 + k
                   ELSE IF k < 52 THEN 97 + (k - 26)
                   ELSE IF k < 62 THEN 48 + (k - 52)
                   ELSE IF k = 62 THEN 45 ELSE 95
    IN  [i \in 1..Len(s) |-> code(n(s[i]))]

\* number of bytes generateCodeVerifier reads from crypto/rand
VerifierSize == 32

\* sha256.Size
Sha256Size == 32

\* crypto/sha256 Sum256 is not computed: it is a fixed function from byte
\* strings to Sha256Size bytes, and nothing here uses more of it than that
RECURSIVE Absorb(_, _)
Absorb(data, acc) ==
    IF data = <<>> THEN acc
    ELSE Absorb(Tail(data), (acc * 31 + data[1] + 7) % 65521)

Sum256(data) ==
    LET h == Absorb(data, Len(data) + 1) IN
    [i \in 1..Sha256Size |-> ((h + 1) * (2 * i + 1) + (h \div 256) * i) % 256]

\* crypto/rand: the bytes the n-th OAuthFlow call reads for its verifier, a
\* stream the program does not control and that does not repeat
RandRead(n, size) == [i \in 1..size |-> (n * 89 + i * 151 + n * i * 13) % 256]

\* generateCodeChallenge with base64.StdEncoding, which pads
generateCodeChallengePadded(verifier) ==
    EncodeToString(TRUE, Sum256(Bytes(verifier)))

\* generateCodeVerifier for the bytes rand.Read gave
generateCodeVerifier(buf) == EncodeToString(FALSE, buf)

\* generateCodeChallenge
generateCodeChallenge(verifier) ==
    EncodeToString(FALSE, Sum256(Bytes(verifier)))

\* OAuthFlow: the codeVerifier and the codeChallenge of the n-th call
codeVerifierOf ==
    [n \in 1..MaxAttempts |->
        generateCodeVerifier(RandRead(n, VerifierSize))]

codeChallengeOf ==
    [n \in 1..MaxAttempts |-> generateCodeChallenge(codeVerifierOf[n])]

\* the parameters of buildAuthURL that belong to PKCE and to the state check
NoURL == [state |-> "", code_challenge |-> <<>>, code_challenge_method |-> ""]

buildAuthURL(state, codeChallenge) ==
    [state |-> state, code_challenge |-> codeChallenge,
     code_challenge_method |-> "S256"]

\* pkce before generateCodeVerifier has run in an attempt; prev is the
\* verifier of the attempt before, made the set of what the attempt has
\* generated itself
NoPKCE(prev) ==
    [verifier |-> <<>>, challenge |-> <<>>, url |-> NoURL, sent |-> <<>>,
     prev |-> prev, made |-> {}]

(***************************************************************************)
(* auth.OAuthFlow and waitForCallback                                      *)
(***************************************************************************)
\* the values generateState can return
StateTokens == {"state-a", "state-b"}

\* the query of one callback request: state, error and code, each possibly
\* absent
Query(state, error, code) == [state |-> state, error |-> error, code |-> code]

\* every combination of a state (that of the attempt, another one, none), an
\* error of the provider or none, and a code or none
Queries(state) ==
    {Query(s, e, c) : s \in StateTokens \cup {""},
                      e \in {"", "access_denied"}, c \in {"", "auth-code"}}

\* a value in codeCh or errCh, or returned by waitForCallback; src and state
\* tell which goroutine sent it and the state parameter of its request
Message(kind, value, src, state) ==
    [kind |-> kind, value |-> value, src |-> src, state |-> state]

NoOutcome == Message("none", "", "", "")

\* the handler without the check of the state parameter
HandlerAcceptAll(q, expectedState) ==
    IF q.error # ""
    THEN [verdict |-> "denied", send |-> "err", value |-> "authorization denied",
          state |-> q.state]
    ELSE IF q.code = ""
    THEN [verdict |-> "nocode", send |-> "err",
          value |-> "no authorization code received", state |-> q.state]
    ELSE [verdict |-> "ok", send |-> "code", value |-> q.code,
          state |-> q.state]

\* the handler without the check of the error parameter
HandlerIgnoresError(q, expectedState) ==
    IF q.state # expectedState
    THEN [verdict |-> "mismatch", send |-> "err",
          value |-> "state mismatch: possible CSRF attack", state |-> q.state]
    ELSE IF q.code = ""
    THEN [verdict |-> "nocode", send |-> "err",
          value |-> "no authorization code received", state |-> q.state]
    ELSE [verdict |-> "ok", send |-> "code", value |-> q.code,
          state |-> q.state]

\* the handler registered by waitForCallback, up to its channel send: the
\* send it reaches, with what value, for a request with what state
Handler(q, expectedState) ==
    IF q.state # expectedState
    THEN [verdict |-> "mismatch", send |-> "err",
          value |-> "state mismatch: possible CSRF attack", state |-> q.state]
    ELSE IF q.error # ""
    THEN [verdict |-> "denied", send |-> "err", value |-> "authorization denied",
          state |-> q.state]
    ELSE IF q.code = ""
    THEN [verdict |-> "nocode", send |-> "err",
          value |-> "no authorization code received", state |-> q.state]
    ELSE [verdict |-> "ok", send |-> "code", value |-> q.code,
          state |-> q.state]

ExpectedState == expected[Len(expected)]

\* the state before the first attempt, whatever the redirect URI
FlowInit ==
    /\ attempt = 0
    /\ pc = "idle"
    /\ flowErr = ""
    /\ listener = "none"
    /\ server = "off"
    /\ expected = <<>>
    /\ urlShown = FALSE
    /\ codeCh = <<>>
    /\ errCh = <<>>
    /\ backlog = 0
    /\ handlers = EmptyBag
    /\ arrived = 0
    /\ accepted = 0
    /\ wfcOut = NoOutcome
    /\ graceOver = FALSE
    /\ log = {}
    /\ early = FALSE
    /\ tainted = FALSE
    /\ tokenResp = NoResponse
    /\ exchange = NoExchange
    /\ pkce = NoPKCE(<<>>)

\* the path of defaultRedirectURI, "/auth/redirect"
DefaultRedirectPath ==
    <<"/", "a", "u", "t", "h", "/", "r", "e", "d", "i", "r", "e", "c", "t">>

\* the paths of the redirect URIs OAuthFlow is called with: the default one,
\* "" (http://localhost:7171), "/" and "/cb/"
RedirectPaths == {DefaultRedirectPath, <<>>, <<"/">>, <<"/", "c", "b", "/">>}

\* the paths of the requests made to the listener on another path than the
\* callback path: "/", "/favicon.ico", "/cb/x", "/auth/redirect/"
RequestPaths ==
    { <<"/">>,
      <<"/", "f", "a", "v", "i", "c", "o", "n", ".", "i", "c", "o">>,
      <<"/", "c", "b", "/", "x">>,
      DefaultRedirectPath \o <<"/">> }

\* OAuthFlow: callbackPath := u.Path; if callbackPath == "" { "/" }
CallbackPath(path) == IF path = <<>> THEN <<"/">> ELSE path

HasPrefix(s, prefix) ==
    /\ Len(prefix) <= Len(s)
    /\ SubSeq(s, 1, Len(prefix)) = prefix

\* net/http ServeMux with the one pattern of mux.HandleFunc(callbackPath, ..):
\* a pattern ending in "/" names a subtree and matches every path under it,
\* any other pattern matches that path alone
MuxMatch(pattern, path) ==
    IF pattern[Len(pattern)] = "/" THEN HasPrefix(path, pattern)
    ELSE path = pattern

LoginInit == FlowInit /\ redirectPath = DefaultRedirectPath

\* OAuthFlow is called: a new attempt with its own listener, channels and
\* handler closure
StartFlow ==
    /\ pc = "idle"
    /\ attempt < MaxAttempts
    /\ attempt' = attempt + 1
    /\ pc' = "listen"
    /\ flowErr' = ""
    /\ listener' = "none"
    /\ server' = "off"
    /\ urlShown' = FALSE
    /\ codeCh' = <<>>
    /\ errCh' = <<>>
    /\ backlog' = 0
    /\ handlers' = EmptyBag
    /\ arrived' = 0
    /\ accepted' = 0
    /\ wfcOut' = NoOutcome
    /\ graceOver' = FALSE
    /\ early' = FALSE
    /\ tainted' = FALSE
    /\ tokenResp' = NoResponse
    /\ exchange' = NoExchange
    /\ pkce' = NoPKCE(IF pkce.verifier # <<>> THEN pkce.verifier
                      ELSE pkce.prev)
    /\ UNCHANGED <<expected, log, redirectPath, storeVars, auxVars>>

\* OAuthFlow going on to the authorization URL with the address not bound
NetListenDeferred ==
    /\ pc = "listen"
    /\ pc' = "verifier"
    /\ UNCHANGED <<attempt, flowErr, listener, server, expected, urlShown,
                   codeCh, errCh, backlog, handlers, arrived, accepted,
                   wfcOut, graceOver, log, early, tainted, tokenResp, exchange,
                   pkce, redirectPath,
                   storeVars, auxVars>>

\* net.Listen("tcp", listenAddr)
NetListen ==
    /\ pc = "listen"
    /\ \/ /\ listener' = "bound"
          /\ pc' = "verifier"
          /\ UNCHANGED flowErr
       \/ /\ flowErr' = "starting local server"
          /\ pc' = "idle"
          /\ UNCHANGED listener
    /\ UNCHANGED <<attempt, server, expected, urlShown, codeCh, errCh,
                   backlog, handlers, arrived, accepted, wfcOut, graceOver,
                   log, early, tainted, tokenResp, exchange, pkce,
                   redirectPath, storeVars, auxVars>>

\* generateCodeVerifier; a failure of the entropy source returns at once
GenerateCodeVerifier ==
    /\ pc = "verifier"
    /\ \/ /\ pkce' = [pkce EXCEPT
                          !.verifier = codeVerifierOf[attempt],
                          !.challenge = codeChallengeOf[attempt],
                          !.made = @ \cup {"verifier"}]
          /\ pc' = "state"
          /\ UNCHANGED flowErr
       \/ /\ flowErr' = "generating PKCE verifier"
          /\ pc' = "idle"
          /\ UNCHANGED pkce
    /\ UNCHANGED <<attempt, listener, server, expected, urlShown, codeCh,
                   errCh, backlog, handlers, arrived, accepted, wfcOut,
                   graceOver, log, early, tainted, tokenResp, exchange,
                   redirectPath, storeVars, auxVars>>

\* generateState
GenerateState ==
    /\ pc = "state"
    /\ \/ /\ \E s \in StateTokens : expected' = Append(expected, s)
          /\ pkce' = [pkce EXCEPT !.made = @ \cup {"state"}]
          /\ pc' = "browser"
          /\ UNCHANGED flowErr
       \/ /\ flowErr' = "generating state"
          /\ pc' = "idle"
          /\ UNCHANGED <<expected, pkce>>
    /\ UNCHANGED <<attempt, listener, server, urlShown, codeCh, errCh,
                   backlog, handlers, arrived, accepted, wfcOut, graceOver,
                   log, early, tainted, tokenResp, exchange, redirectPath,
                   storeVars, auxVars>>

\* buildAuthURL, openBrowser and the messages on out
ShowURL ==
    /\ pc = "browser"
    /\ urlShown' = TRUE
    /\ pkce' = [pkce EXCEPT !.url = buildAuthURL(ExpectedState,
                                                 pkce.challenge)]
    /\ pc' = "serve"
    /\ UNCHANGED <<attempt, flowErr, listener, server, expected, codeCh,
                   errCh, backlog, handlers, arrived, accepted, wfcOut,
                   graceOver, log, early, tainted, tokenResp, exchange,
                   redirectPath, storeVars, auxVars>>

\* waitForCallback up to the select: channels, mux, go server.Serve(listener)
StartServer ==
    /\ pc = "serve"
    /\ server' = "serving"
    /\ pc' = "select"
    /\ UNCHANGED <<attempt, flowErr, listener, expected, urlShown, codeCh,
                   errCh, backlog, handlers, arrived, accepted, wfcOut,
                   graceOver, log, early, tainted, tokenResp, exchange, pkce,
                   redirectPath, storeVars, auxVars>>

\* a client connects to the redirect address to send a callback request
Arrive ==
    /\ urlShown
    /\ pc # "idle"
    /\ \/ /\ listener = "bound"
          /\ arrived < MaxRequests
          /\ arrived' = arrived + 1
          /\ backlog' = backlog + 1
          /\ UNCHANGED early
       \/ /\ listener = "none"
          /\ ~early
          /\ early' = TRUE
          /\ UNCHANGED <<arrived, backlog>>
    /\ UNCHANGED <<attempt, pc, flowErr, listener, server, expected,
                   urlShown, codeCh, errCh, handlers, accepted, wfcOut,
                   graceOver, log, tainted, tokenResp, exchange, pkce,
                   redirectPath, storeVars, auxVars>>

\* the server accepts a connection, reads the request and runs the handler
\* in a goroutine of its own, up to the channel send the handler reaches;
\* the success page is written before the send of the code
Serve(path) ==
    /\ server = "serving"
    /\ listener = "bound"
    /\ backlog > 0
    /\ backlog' = backlog - 1
    /\ IF MuxMatch(CallbackPath(redirectPath), path)
       THEN \E h \in {Handler(q, ExpectedState) :
                         q \in Queries(ExpectedState)} :
               /\ handlers' = handlers (+) SetToBag({h})
               /\ accepted' = IF h.send = "code" THEN accepted + 1
                              ELSE accepted
               /\ log' = IF h.state \in StateTokens
                         THEN log \cup {<<Len(expected), h.state,
                                          h.verdict # "mismatch">>}
                         ELSE log
       ELSE \* 404 page not found from the mux
            UNCHANGED <<handlers, accepted, log>>
    /\ UNCHANGED <<attempt, pc, flowErr, listener, server, expected,
                   urlShown, codeCh, errCh, arrived, wfcOut, graceOver,
                   early, tainted, tokenResp, exchange, pkce,
                   redirectPath, storeVars, auxVars>>

\* a request on the callback path
ServeRequest == Serve(CallbackPath(redirectPath))

\* a request on any other path
ServeOtherPath ==
    \E path \in RequestPaths \ {CallbackPath(redirectPath)} : Serve(path)

\* errCh <- err in the handler, then the error response; a caller parked in
\* the select receives the value directly
SendErr ==
    \E h \in BagToSet(handlers) :
        /\ h.send = "err"
        /\ Len(errCh) < 1
        /\ IF pc = "parked"
           THEN /\ wfcOut' = Message("error", h.value, "handler", h.state)
                /\ pc' = "shutdown"
                /\ UNCHANGED errCh
           ELSE /\ errCh' = Append(errCh, Message("error", h.value, "handler",
                                                  h.state))
                /\ UNCHANGED <<wfcOut, pc>>
        /\ handlers' = handlers (-) SetToBag({h})
        /\ accepted' = accepted + 1
        /\ tainted' = (tainted \/ (h.verdict = "mismatch" /\ wfcOut.kind = "none"))
        /\ UNCHANGED <<attempt, flowErr, listener, server, expected, urlShown,
                       codeCh, backlog, arrived, graceOver, log, early,
                       tokenResp, exchange, pkce,
                   redirectPath, storeVars, auxVars>>

\* codeCh <- code in the handler
SendCode ==
    \E h \in BagToSet(handlers) :
        /\ h.send = "code"
        /\ Len(codeCh) < 1
        /\ IF pc = "parked"
           THEN /\ wfcOut' = Message("code", h.value, "handler", h.state)
                /\ pc' = "shutdown"
                /\ UNCHANGED codeCh
           ELSE /\ codeCh' = Append(codeCh, Message("code", h.value, "handler",
                                                    h.state))
                /\ UNCHANGED <<wfcOut, pc>>
        /\ handlers' = handlers (-) SetToBag({h})
        /\ UNCHANGED <<attempt, flowErr, listener, server, expected, urlShown,
                       errCh, backlog, arrived, accepted, graceOver, log, early,
                       tainted, tokenResp, exchange, pkce,
                   redirectPath, storeVars, auxVars>>

\* server.Serve returns an error other than http.ErrServerClosed
ServeFail ==
    /\ server = "serving"
    /\ listener = "bound"
    /\ server' = "failed"
    /\ UNCHANGED <<attempt, pc, flowErr, listener, expected, urlShown,
                   codeCh, errCh, backlog, handlers, arrived, accepted,
                   wfcOut, graceOver, log, early, tainted, tokenResp, exchange,
                   pkce, redirectPath,
                   storeVars, auxVars>>

\* errCh <- err in the goroutine of server.Serve
SendServeErr ==
    /\ server = "failed"
    /\ Len(errCh) < 1
    /\ IF pc = "parked"
       THEN /\ wfcOut' = Message("error", "serve error", "server", "")
            /\ pc' = "shutdown"
            /\ UNCHANGED errCh
       ELSE /\ errCh' = Append(errCh, Message("error", "serve error", "server", ""))
            /\ UNCHANGED <<wfcOut, pc>>
    /\ server' = "stopped"
    /\ UNCHANGED <<attempt, flowErr, listener, expected, urlShown, codeCh,
                   backlog, handlers, arrived, accepted, graceOver, log,
                   early, tainted, tokenResp, exchange, pkce,
                   redirectPath, storeVars, auxVars>>

\* select, a code is ready when the caller reaches it: case code := <-codeCh
\* (of several ready cases any one is chosen)
SelectCode ==
    /\ pc = "select"
    /\ Len(codeCh) > 0
    /\ wfcOut' = Head(codeCh)
    /\ codeCh' = Tail(codeCh)
    /\ pc' = "shutdown"
    /\ UNCHANGED <<attempt, flowErr, listener, server, expected, urlShown,
                   errCh, backlog, handlers, arrived, accepted, graceOver,
                   log, early, tainted, tokenResp, exchange, pkce,
                   redirectPath, storeVars, auxVars>>

\* select, an error is ready when the caller reaches it: case err := <-errCh
SelectErr ==
    /\ pc = "select"
    /\ Len(errCh) > 0
    /\ wfcOut' = Head(errCh)
    /\ errCh' = Tail(errCh)
    /\ pc' = "shutdown"
    /\ UNCHANGED <<attempt, flowErr, listener, server, expected, urlShown,
                   codeCh, backlog, handlers, arrived, accepted, graceOver,
                   log, early, tainted, tokenResp, exchange, pkce,
                   redirectPath, storeVars, auxVars>>

\* select, no case is ready: the caller blocks on the two channels and the
\* timer
SelectPark ==
    /\ pc = "select"
    /\ Len(codeCh) = 0
    /\ Len(errCh) = 0
    /\ pc' = "parked"
    /\ UNCHANGED <<attempt, flowErr, listener, server, expected, urlShown,
                   codeCh, errCh, backlog, handlers, arrived, accepted,
                   wfcOut, graceOver, log, early, tainted, tokenResp, exchange,
                   pkce, redirectPath,
                   storeVars, auxVars>>

\* a select without the timeout case
SelectTimeoutNever ==
    /\ FALSE
    /\ UNCHANGED vars

\* select: case <-time.After(5 * time.Minute), the timer fires on the
\* blocked caller
SelectTimeout ==
    /\ pc = "parked"
    /\ wfcOut' = Message("timeout",
                         "timed out waiting for authentication (5 minutes)",
                         "timer", "")
    /\ pc' = "shutdown"
    /\ UNCHANGED <<attempt, flowErr, listener, server, expected, urlShown,
                   codeCh, errCh, backlog, handlers, arrived, accepted,
                   graceOver, log, early, tainted, tokenResp, exchange, pkce,
                   redirectPath, storeVars, auxVars>>

\* the deferred server.Shutdown(ctx): the listener is closed first, Serve
\* returns http.ErrServerClosed, connections not yet served are closed
ShutdownBegin ==
    /\ pc = "shutdown"
    /\ listener' = "closed"
    /\ server' = IF server = "serving" THEN "stopped" ELSE server
    /\ backlog' = 0
    /\ pc' = "shutwait"
    /\ UNCHANGED <<attempt, flowErr, expected, urlShown, codeCh, errCh,
                   handlers, arrived, accepted, wfcOut, graceOver, log,
                   early, tainted, tokenResp, exchange, pkce,
                   redirectPath, storeVars, auxVars>>

\* the 2-second context of server.Shutdown expires
GraceExpire ==
    /\ pc = "shutwait"
    /\ ~graceOver
    /\ graceOver' = TRUE
    /\ UNCHANGED <<attempt, pc, flowErr, listener, server, expected,
                   urlShown, codeCh, errCh, backlog, handlers, arrived,
                   accepted, wfcOut, log, early, tainted, tokenResp, exchange,
                   pkce, redirectPath,
                   storeVars, auxVars>>

\* a Shutdown that waits for every handler, with no deadline
ShutdownEndUnbounded ==
    /\ pc = "shutwait"
    /\ handlers = EmptyBag
    /\ IF wfcOut.kind = "code"
       THEN pc' = "exchange" /\ UNCHANGED flowErr
       ELSE pc' = "idle" /\ flowErr' = "waiting for callback"
    /\ UNCHANGED <<attempt, listener, server, expected, urlShown, codeCh,
                   errCh, backlog, handlers, arrived, accepted, wfcOut,
                   graceOver, log, early, tainted, tokenResp, exchange, pkce,
                   redirectPath, storeVars, auxVars>>

\* server.Shutdown returns (every connection idle, or the context done) and
\* waitForCallback returns to OAuthFlow
ShutdownEnd ==
    /\ pc = "shutwait"
    /\ graceOver \/ handlers = EmptyBag
    /\ IF wfcOut.kind = "code"
       THEN pc' = "exchange" /\ UNCHANGED flowErr
       ELSE pc' = "idle" /\ flowErr' = "waiting for callback"
    /\ UNCHANGED <<attempt, listener, server, expected, urlShown, codeCh,
                   errCh, backlog, handlers, arrived, accepted, wfcOut,
                   graceOver, log, early, tainted, tokenResp, exchange, pkce,
                   redirectPath, storeVars, auxVars>>

LoginHost == "gitlab.test.local"

\* OAuthFlow: tokenResp, err := exchangeCode(...)
ExchangeCode ==
    /\ pc = "exchange"
    /\ \E reply \in Replies(now) :
          LET r == exchangeCode(reply) IN
          /\ exchange' = r
          /\ pkce' = [pkce EXCEPT !.sent = IF r.posts = 1 THEN pkce.verifier
                                           ELSE @]
          /\ IF r.err = ""
             THEN /\ tokenResp' = r.resp
                  /\ pc' = "validate"
                  /\ UNCHANGED flowErr
             ELSE /\ flowErr' = "exchanging authorization code"
                  /\ pc' = "idle"
                  /\ UNCHANGED tokenResp
    /\ UNCHANGED <<attempt, listener, server, expected, urlShown, codeCh,
                   errCh, backlog, handlers, arrived, accepted, wfcOut,
                   graceOver, log, early, tainted, redirectPath, storeVars, auxVars>>

\* client.Users.CurrentUser() with the new token, then the merge into the
\* store
ValidateAndSave ==
    /\ pc = "validate"
    /\ pc' = "idle"
    /\ \/ /\ flowErr' = "authenticating"
          /\ UNCHANGED storeVars
       \/ /\ hostsFile' = SaveCredentials(hostsFile, LoginHost,
                                          tokenResp.access_token, "testuser")
          /\ last' = Done("OAuthFlow", LoginHost, tokenResp.access_token,
                          tokenResp, tokenResp.access_token, "", FALSE, 1)
          /\ UNCHANGED <<flowErr, now, envToken, ops>>
    /\ UNCHANGED <<attempt, listener, server, expected, urlShown, codeCh,
                   errCh, backlog, handlers, arrived, accepted, wfcOut,
                   graceOver, log, early, tainted, tokenResp, exchange, pkce,
                   redirectPath, auxVars>>

(***************************************************************************)
(* config.json and glab config                                             *)
(***************************************************************************)
\* config.Keys()
ConfigKeys == {"editor", "pager", "browser", "protocol", "git_remote"}

\* the Config that Load starts from
DefaultConfig ==
    [editor |-> "", pager |-> "", browser |-> "", protocol |-> "https",
     git_remote |-> "origin"]

NoKeys == [k \in {} |-> ""]
MissingConfig == [kind |-> "missing", data |-> NoKeys]
CorruptConfig == [kind |-> "corrupt", data |-> NoKeys]
ConfigJSON(data) == [kind |-> "json", data |-> data]

\* config.Load(): the keys of the file over the defaults; a missing file is
\* the defaults
ConfigLoad(file) ==
    [err |-> file.kind = "corrupt",
     cfg |-> IF file.kind = "json"
             THEN [k \in ConfigKeys |-> IF k \in DOMAIN file.data
                                        THEN file.data[k]
                                        ELSE DefaultConfig[k]]
             ELSE DefaultConfig]

\* (*Config).Get
ConfigGet(cfg, key) ==
    IF key \in ConfigKeys THEN [err |-> "", value |-> cfg[key]]
    ELSE [err |-> "unknown config key", value |-> ""]

\* (*Config).Set
ConfigSet(cfg, key, value) ==
    IF key \in ConfigKeys
    THEN [err |-> "", cfg |-> [cfg EXCEPT ![key] = value]]
    ELSE [err |-> "unknown config key", cfg |-> cfg]

\* glab config set <key> <value> without --host: [err, out, file]
ConfigSetCmd(file, key, value) ==
    LET ld == ConfigLoad(file) IN
    IF ld.err THEN [err |-> "parsing config", out |-> "", file |-> file]
    ELSE LET st == ConfigSet(ld.cfg, key, value) IN
         IF st.err # "" THEN [err |-> st.err, out |-> "", file |-> file]
         ELSE [err |-> "", out |-> "Set", file |-> file]

\* glab config get <key> without --host: [err, out]
ConfigGetCmd(file, key) ==
    LET ld == ConfigLoad(file) IN
    IF ld.err THEN [err |-> "parsing config", out |-> ""]
    ELSE LET g == ConfigGet(ld.cfg, key) IN
         IF g.err # "" THEN [err |-> g.err, out |-> ""]
         ELSE IF g.value = "" THEN [err |-> "key is not set", out |-> ""]
         ELSE [err |-> "", out |-> g.value]

\* glab config list: [err, out], out the value printed for each key
ConfigListCmd(file) ==
    LET ld == ConfigLoad(file) IN
    IF ld.err THEN [err |-> "parsing config", out |-> NoKeys]
    ELSE [err |-> "",
          out |-> [k \in ConfigKeys |->
                     IF ConfigGet(ld.cfg, k).value = "" THEN "(not set)"
                     ELSE ConfigGet(ld.cfg, k).value]]

\* the config.json files the invocations start from
ConfigFiles ==
    {MissingConfig, CorruptConfig, ConfigJSON(NoKeys),
     ConfigJSON([k \in {"editor"} |-> "nano"]),
     ConfigJSON([k \in {"protocol", "git_remote"} |->
                   IF k = "protocol" THEN "ssh" ELSE "upstream"])}

NoSet == [key |-> "", value |-> ""]

\* the successful config set of the invocation just before, if any
JustSet ==
    IF last.op = "ConfigSet" /\ last.err = ""
    THEN [key |-> last.key, value |-> last.value]
    ELSE NoSet

ConfigDone(op, key, value, err, out) ==
    [op |-> op, key |-> key, value |-> value, err |-> err, out |-> out,
     after |-> JustSet]

ConfigStoreInit ==
    /\ hostsFile = MissingFile
    /\ now = 1000
    /\ envToken = ""
    /\ last = [op |-> "none", key |-> "", value |-> "", err |-> "",
               out |-> "", after |-> NoSet]
    /\ ops = 0

DoConfigSet ==
    /\ ops < MaxOps
    /\ ops' = ops + 1
    /\ \E key \in ConfigKeys \cup {"token"}, value \in {"vim", "ssh"} :
        LET r == ConfigSetCmd(configFile, key, value) IN
        /\ configFile' = r.file
        /\ last' = ConfigDone("ConfigSet", key, value, r.err, r.out)
    /\ UNCHANGED <<hostsFile, now, envToken, procs, loginVars>>

DoConfigGet ==
    /\ ops < MaxOps
    /\ ops' = ops + 1
    /\ \E key \in ConfigKeys \cup {"token"} :
        LET r == ConfigGetCmd(configFile, key) IN
        last' = ConfigDone("ConfigGet", key, "", r.err, r.out)
    /\ UNCHANGED <<hostsFile, now, envToken, configFile, procs, loginVars>>

DoConfigList ==
    /\ ops < MaxOps
    /\ ops' = ops + 1
    /\ LET r == ConfigListCmd(configFile) IN
       last' = ConfigDone("ConfigList", "", "", r.err, r.out)
    /\ UNCHANGED <<hostsFile, now, envToken, configFile, procs, loginVars>>

(***************************************************************************)
(* Invocations of glab running at the same time on one hosts.json          *)
(***************************************************************************)
Procs == {"A", "B"}

\* the updates an invocation makes to the record of a host
Updates ==
    {[op |-> o, host |-> h] :
        o \in {"Login", "OAuthFlow", "Refresh", "Logout", "SetHostValue"},
        h \in Hosts}

IdleProc ==
    [pc |-> "idle", read |-> MissingFile,
     update |-> [op |-> "none", host |-> ""], stale |-> FALSE]

NoProcs == [p \in Procs |-> IdleProc]

\* what the invocation writes, and whether it writes, from the hosts.json
\* it has read: [err, file]
Outcome(u, read, t) ==
    CASE u.op = "Login" ->
           [err |-> Login(read, u.host, "pat-token", TRUE, "bob").err,
            file |-> Login(read, u.host, "pat-token", TRUE, "bob").file]
      [] u.op = "OAuthFlow" ->
           [err |-> "",
            file |-> SaveCredentials(read, u.host, "oauth-token", "testuser")]
      [] u.op = "Refresh" ->
           LET r == RefreshOAuthToken(read, u.host,
                        Response("ok", "new-token", "new-refresh", 7200, t))
           IN  [err |-> r.err, file |-> r.file]
      [] u.op = "Logout" ->
           [err |-> Logout(read, u.host).err,
            file |-> Logout(read, u.host).file]
      [] OTHER ->
           [err |-> SetHostValue(read, u.host, "client_id", "my-client-id").err,
            file |-> SetHostValue(read, u.host, "client_id",
                                  "my-client-id").file]

\* a save that applies the update to the file as it is when it is written
RewriteCurrent(current, read, u, t) == Outcome(u, current, t)

\* config.SaveHosts(hosts) of an invocation: the map it loaded, with its
\* update, replaces the file, whatever the file holds by now
Rewrite(current, read, u, t) == Outcome(u, read, t)

RaceFiles ==
    {MissingFile,
     SaveHosts([h \in {"gitlab.test.local"} |->
                  StoredRecord("oauth", "refresh-token", 700)]),
     SaveHosts([h \in Hosts |->
                  IF h = "gitlab.test.local"
                  THEN StoredRecord("oauth", "refresh-token", 700)
                  ELSE StoredRecord("pat", "", 0)])}

NoSave ==
    [op |-> "none", proc |-> "", update |-> [op |-> "none", host |-> ""],
     read |-> MissingFile, before |-> MissingFile, err |-> "",
     stale |-> FALSE]

RaceStoreInit ==
    /\ hostsFile \in RaceFiles
    /\ now = 1000
    /\ envToken = ""
    /\ last = NoSave
    /\ ops = 0

\* an invocation starts and reads hosts.json: config.LoadHosts()
ProcLoad(p) ==
    /\ procs[p].pc = "idle"
    /\ ops < MaxOps
    /\ ops' = ops + 1
    /\ \E u \in Updates :
          procs' = [procs EXCEPT ![p] = [pc |-> "loaded", read |-> hostsFile,
                                         update |-> u, stale |-> FALSE]]
    /\ UNCHANGED <<hostsFile, now, envToken, last, configFile, loginVars>>

\* it writes hosts.json, or returns with an error, and ends; the invocations
\* that have read the file before hold a map that is out of date
ProcSave(p) ==
    /\ procs[p].pc = "loaded"
    /\ LET r == Rewrite(hostsFile, procs[p].read, procs[p].update, now) IN
       /\ hostsFile' = IF r.err = "" THEN r.file ELSE hostsFile
       /\ last' = [op |-> "Save", proc |-> p, update |-> procs[p].update,
                   read |-> procs[p].read, before |-> hostsFile,
                   err |-> r.err, stale |-> procs[p].stale]
       /\ procs' = [q \in Procs |->
                      IF q = p THEN IdleProc
                      ELSE IF procs[q].pc = "loaded" /\ r.err = ""
                           THEN [procs[q] EXCEPT !.stale = TRUE]
                           ELSE procs[q]]
    /\ UNCHANGED <<now, envToken, ops, configFile, loginVars>>

LoadStep == \E p \in Procs : ProcLoad(p)
SaveStep == \E p \in Procs : ProcSave(p)

(***************************************************************************)
(* Specifications                                                          *)
(***************************************************************************)
AuxInit == configFile = MissingConfig /\ procs = NoProcs

Init == StoreInit /\ LoginInit /\ AuxInit

Next ==
    \/ (DoNewClient /\ UNCHANGED <<loginVars, auxVars>>)
    \/ (DoResolve /\ UNCHANGED <<loginVars, auxVars>>)
    \/ (DoRefresh /\ UNCHANGED <<loginVars, auxVars>>)
    \/ (DoLogin /\ UNCHANGED <<loginVars, auxVars>>)
    \/ (DoLogout /\ UNCHANGED <<loginVars, auxVars>>)
    \/ (DoSetHostValue /\ UNCHANGED <<loginVars, auxVars>>)
    \/ (Tick /\ UNCHANGED <<loginVars, auxVars>>)

Spec == Init /\ [][Next]_vars

\* the commands that take a token for the API, on the same stores
NextCommand ==
    \/ (DoNewClient /\ UNCHANGED <<loginVars, auxVars>>)
    \/ (DoGetToken /\ UNCHANGED <<loginVars, auxVars>>)
    \/ (DoAPI /\ UNCHANGED <<loginVars, auxVars>>)
    \/ (Tick /\ UNCHANGED <<loginVars, auxVars>>)

CommandSpec == Init /\ [][NextCommand]_vars

\* the commands that go through the factory's client, and glab auth status
NextFactory ==
    \/ (DoFactoryClient /\ UNCHANGED <<loginVars, auxVars>>)
    \/ (DoGetStatus /\ UNCHANGED <<loginVars, auxVars>>)
    \/ (Tick /\ UNCHANGED <<loginVars, auxVars>>)

FactorySpec == Init /\ [][NextFactory]_vars

\* the maps a command can hand to SaveHosts: a record with its fields set or
\* at their zero value, alone or next to a static-token record
SavedRecords ==
    {[HostConfig EXCEPT
        !.token = "access-123", !.refresh_token = r,
        !.token_expires_at = t[1], !.token_created_at = t[2], !.user = u,
        !.auth_method = m, !.client_id = i[1], !.redirect_uri = i[2]] :
        r \in {"", "refresh-456"},
        t \in {<<0, 0>>, <<9000, 0>>, <<9000, 1800>>},
        u \in {"", "alice"}, m \in {"pat", "oauth"},
        i \in {<<"", "">>,
                <<"my-client-id", "http://localhost:7171/auth/redirect">>}}

SavedMaps ==
    {[h \in {"gitlab.test.local"} |-> r] : r \in SavedRecords}
    \cup {[h \in Hosts |-> IF h = "gitlab.test.local" THEN r
                           ELSE [HostConfig EXCEPT !.token = "pat-token",
                                                   !.user = "bob",
                                                   !.auth_method = "pat"]] :
            r \in SavedRecords}

\* a hosts.json written before the refresh-token fields existed
OldFile ==
    [kind |-> "json",
     data |-> [h \in {"gitlab.com"} |->
                  [f \in {"token", "user", "auth_method", "client_id"} |->
                      CASE f = "token" -> "old-token"
                        [] f = "user" -> "olduser"
                        [] f = "auth_method" -> "oauth"
                        [] f = "client_id" -> "old-client"]]]

FileInit ==
    /\ hostsFile \in {MissingFile, OldFile}
    /\ now = 1000
    /\ envToken = ""
    /\ last = [op |-> "none", hosts |-> EmptyMap, err |-> FALSE,
               saved |-> FALSE, was |-> EmptyMap]
    /\ ops = 0

\* a command writes the map it holds: config.SaveHosts(hosts)
DoSaveHosts ==
    /\ \E hosts \in SavedMaps :
          /\ hostsFile' = SaveHosts(hosts)
          /\ last' = [op |-> "SaveHosts", hosts |-> hosts, err |-> FALSE,
                      saved |-> FALSE, was |-> EmptyMap]
    /\ UNCHANGED <<now, envToken, ops>>

\* a command reads the store: config.LoadHosts(); saved tells that the file
\* was written by the SaveHosts just before, was is the map that was written
DoLoadHosts ==
    /\ LET ld == LoadHosts(hostsFile) IN
       last' = [op |-> "LoadHosts", hosts |-> ld.hosts, err |-> ld.err,
                saved |-> last.op = "SaveHosts",
                was |-> IF last.op = "SaveHosts" THEN last.hosts
                        ELSE EmptyMap]
    /\ UNCHANGED <<hostsFile, now, envToken, ops>>

NextFile ==
    \/ (DoSaveHosts /\ UNCHANGED <<loginVars, auxVars>>)
    \/ (DoLoadHosts /\ UNCHANGED <<loginVars, auxVars>>)

InitFile == FileInit /\ LoginInit /\ AuxInit

StoreFileSpec == InitFile /\ [][NextFile]_vars

LoginStoreInit ==
    /\ hostsFile = SaveHosts([h \in {LoginHost} |->
                                StoredRecord("oauth", "refresh-token", 700)])
    /\ now = 1000
    /\ envToken = ""
    /\ last = [op |-> "none", host |-> "", given |-> "", pre |-> hostsFile,
               at |-> now, env |-> envToken, resp |-> NoResponse, token |-> "",
               err |-> "", attempted |-> FALSE, posts |-> 0,
               prior |-> NoPrior]
    /\ ops = 0

InitLogin == LoginStoreInit /\ LoginInit /\ AuxInit

MainStep ==
    \/ NetListen \/ GenerateCodeVerifier \/ GenerateState \/ ShowURL
    \/ StartServer \/ SelectCode \/ SelectErr \/ SelectPark \/ SelectTimeout
    \/ ShutdownBegin \/ ShutdownEnd \/ ExchangeCode \/ ValidateAndSave

NextLogin ==
    \/ StartFlow
    \/ NetListen
    \/ GenerateCodeVerifier
    \/ GenerateState
    \/ ShowURL
    \/ StartServer
    \/ Arrive
    \/ ServeRequest
    \/ SendErr
    \/ SendCode
    \/ ServeFail
    \/ SendServeErr
    \/ SelectCode
    \/ SelectErr
    \/ SelectPark
    \/ SelectTimeout
    \/ ShutdownBegin
    \/ GraceExpire
    \/ ShutdownEnd
    \/ ExchangeCode
    \/ ValidateAndSave

LoginSpec == InitLogin /\ [][NextLogin]_vars

\* a single call of OAuthFlow
StartOnce == StartFlow /\ attempt = 0

NextOneLogin ==
    \/ StartOnce
    \/ NetListen
    \/ GenerateCodeVerifier
    \/ GenerateState
    \/ ShowURL
    \/ StartServer
    \/ Arrive
    \/ ServeRequest
    \/ SendErr
    \/ SendCode
    \/ ServeFail
    \/ SendServeErr
    \/ SelectCode
    \/ SelectErr
    \/ SelectPark
    \/ SelectTimeout
    \/ ShutdownBegin
    \/ GraceExpire
    \/ ShutdownEnd
    \/ ExchangeCode
    \/ ValidateAndSave

\* glab config set, get and list without --host, one invocation after the
\* other
InitConfig ==
    /\ ConfigStoreInit
    /\ LoginInit
    /\ configFile \in ConfigFiles
    /\ procs = NoProcs

NextConfig == DoConfigSet \/ DoConfigGet \/ DoConfigList

ConfigSpec == InitConfig /\ [][NextConfig]_vars

\* invocations that update hosts.json at the same time
InitRace ==
    /\ RaceStoreInit
    /\ LoginInit
    /\ configFile = MissingConfig
    /\ procs = NoProcs

NextRace == LoadStep \/ SaveStep

RaceSpec == InitRace /\ [][NextRace]_vars

\* one login attempt, with any of the redirect URIs, in which every request
\* made to the listener is on another path than the callback path
InitRoute ==
    /\ LoginStoreInit
    /\ FlowInit
    /\ redirectPath \in RedirectPaths
    /\ AuxInit

NextRoute ==
    \/ StartOnce
    \/ NetListen
    \/ GenerateCodeVerifier
    \/ GenerateState
    \/ ShowURL
    \/ StartServer
    \/ Arrive
    \/ ServeOtherPath
    \/ SendErr
    \/ SendCode
    \/ ServeFail
    \/ SendServeErr
    \/ SelectCode
    \/ SelectErr
    \/ SelectPark
    \/ SelectTimeout
    \/ ShutdownBegin
    \/ GraceExpire
    \/ ShutdownEnd
    \/ ExchangeCode
    \/ ValidateAndSave

RouteSpec == InitRoute /\ [][NextRoute]_vars

\* one login attempt in which the goroutine of OAuthFlow is scheduled
\* whenever it can run and the runtime fires the two timers
FairLoginSpec ==
    /\ InitLogin
    /\ [][NextOneLogin]_vars
    /\ WF_vars(MainStep)
    /\ WF_vars(GraceExpire)

(***************************************************************************)
(* Properties of the session resolver and the token refresher              *)
(***************************************************************************)
\* the last operation went through refreshOAuthTokenIfNeeded for a record
\* whose authMethod is oauth
Resolved ==
    /\ last.op \in {"Resolve", "NewClient"}
    /\ last.err = ""
    /\ Stored(last.pre, last.host, "auth_method") = "oauth"

\* the token the resolver was handed
Given ==
    IF last.op = "Resolve" THEN last.given
    ELSE IF last.env # "" THEN last.env
    ELSE Stored(last.pre, last.host, "token")

\* the stored expiry is set and the instant of the call is within 300 s of it
InRefreshWindow ==
    /\ HasRecord(last.pre, last.host)
    /\ Stored(last.pre, last.host, "token_expires_at") # 0
    /\ last.at >= Stored(last.pre, last.host, "token_expires_at") - 300

\* C1: for a record with authMethod oauth the resolver attempts a refresh if
\* and only if tokenExpiresAt # 0 and now >= tokenExpiresAt - 300; in every
\* other case (expiry 0, now earlier, no record, unreadable store) it returns
\* the token it was given, calls no token endpoint and leaves the store alone.
C1_RefreshIffInWindow ==
    /\ Resolved =>
          /\ last.attempted <=> InRefreshWindow
          /\ ~InRefreshWindow =>
                (last.token = Given /\ last.posts = 0 /\ hostsFile = last.pre)
    /\ (last.op = "Resolve" /\ ~HasRecord(last.pre, last.host)) =>
          (~last.attempted /\ last.token = last.given /\ last.posts = 0
           /\ hostsFile = last.pre)

\* C1 witness: a refresh attempted exactly at now = tokenExpiresAt - 300
C1_Witness ==
    /\ Resolved
    /\ last.attempted
    /\ last.at = Stored(last.pre, last.host, "token_expires_at") - 300

\* the refresh the resolver attempted failed: nothing to refresh with, or the
\* token endpoint did not answer with a token response
RefreshFailed ==
    /\ Resolved
    /\ last.attempted
    /\ \/ Stored(last.pre, last.host, "refresh_token") = ""
       \/ last.resp.kind \in {"neterr", "http401", "badjson"}

\* C2: when the refresh attempted by the resolver fails (transport error,
\* non-2xx, malformed body, no refresh token) the resolver returns the token
\* it was given and no error reaches the caller.
C2_FailedRefreshFallsBack ==
    RefreshFailed => (last.token = Given /\ last.err = "")

\* C2 witness: the endpoint answered 401 and the stale token came back
C2_Witness ==
    /\ RefreshFailed
    /\ last.resp.kind = "http401"
    /\ last.posts = 1
    /\ last.token = Stored(last.pre, last.host, "token")

\* the token endpoint answered the refresh of an expired record
RefreshAnswered ==
    /\ Resolved
    /\ InRefreshWindow
    /\ last.posts = 1
    /\ last.resp.kind = "ok"

\* C3: when the stored OAuth record is expired and the endpoint answers with
\* access_token A, refresh_token R, expires_in E, created_at C, the resolver
\* returns A and the stored record has token A, refresh token R,
\* tokenCreatedAt C and tokenExpiresAt C + E.
C3_RefreshReplacesAllFour ==
    RefreshAnswered =>
        /\ last.token = last.resp.access_token
        /\ Stored(hostsFile, last.host, "token") = last.resp.access_token
        /\ Stored(hostsFile, last.host, "refresh_token") = last.resp.refresh_token
        /\ Stored(hostsFile, last.host, "token_created_at") = last.resp.created_at
        /\ Stored(hostsFile, last.host, "token_expires_at")
              = last.resp.created_at + last.resp.expires_in

\* C3 witness: a record expired 300 s ago was refreshed
C3_Witness ==
    /\ RefreshAnswered
    /\ Stored(last.pre, last.host, "token_expires_at") = 700
    /\ Stored(hostsFile, last.host, "token") = "new-token"
    /\ Stored(hostsFile, last.host, "token_expires_at") = last.at + 7200

\* a refresh succeeded in the last operation
RefreshSucceeded ==
    /\ last.op \in {"Refresh", "Resolve", "NewClient"}
    /\ last.posts = 1
    /\ last.resp.kind = "ok"

\* C4: a successful RefreshOAuthToken leaves user, clientId, redirectUri,
\* OAuth scopes and authMethod of the record as they were.
C4_RefreshKeepsOtherFields ==
    RefreshSucceeded =>
        \A f \in {"user", "client_id", "redirect_uri", "oauth_scopes",
                  "auth_method"} :
            Stored(hostsFile, last.host, f) = Stored(last.pre, last.host, f)

\* C4 witness: the refresher ran on its own on a record with a client id and
\* scopes and replaced its token
C4_Witness ==
    /\ RefreshSucceeded
    /\ last.op = "Refresh"
    /\ Stored(last.pre, last.host, "client_id") = "client-id"
    /\ Stored(last.pre, last.host, "oauth_scopes") = "api read_user"
    /\ Stored(hostsFile, last.host, "token") = "new-token"

(***************************************************************************)
(* Properties of the callback listener                                     *)
(***************************************************************************)
\* waitForCallback has returned to OAuthFlow
WfcReturned ==
    \/ pc \in {"exchange", "validate"}
    \/ pc = "idle" /\ wfcOut.kind # "none"

\* C5: a callback whose state parameter differs from the expected state of
\* the attempt, or lacks one, never makes waitForCallback return a code: its
\* handler never reaches the send of a code, no code in codeCh and no code
\* returned comes from it; and over sequential attempts every state check
\* that passed was made on the state of the attempt it was made in, so the
\* state of another attempt is rejected.
C5_ForgedStateYieldsNoCode ==
    /\ \A h \in BagToSet(handlers) :
          h.state # ExpectedState => h.send # "code"
    /\ \A i \in DOMAIN codeCh : codeCh[i].state = ExpectedState
    /\ wfcOut.kind = "code" => wfcOut.state = ExpectedState
    /\ \A e \in log : e[3] => e[2] = expected[e[1]]

\* C5 witness: two attempts with different states, each having rejected a
\* callback that carried the state of the other
C5_Witness ==
    /\ Len(expected) = 2
    /\ expected[1] # expected[2]
    /\ <<1, expected[2], FALSE>> \in log
    /\ <<2, expected[1], FALSE>> \in log

\* C6: once a request with a mismatching state has been handled before the
\* caller took a result, the attempt fails with the CSRF state-mismatch error.
C6_MismatchAlwaysFatal ==
    (tainted /\ wfcOut.kind # "none") =>
        (wfcOut.kind = "error"
         /\ wfcOut.value = "state mismatch: possible CSRF attack")

\* C7: at most one request of an attempt is processed as a callback, that is
\* answered as successful or queued as a code or an error.
C7_OneCallbackAccepted == accepted <= 1

\* C8: waitForCallback has shut the server down and closed the listener
\* whenever it has returned, whatever the outcome, and the wait of the
\* shutdown always ends, handlers still running or not.
C8_ShutdownOnEveryReturn ==
    /\ [](WfcReturned => (listener = "closed" /\ server # "serving"))
    /\ (pc = "shutwait" ~> WfcReturned)

\* C8 witness: waitForCallback returned at the end of the grace period with
\* a handler still in its send
C8_Witness ==
    /\ WfcReturned
    /\ graceOver
    /\ listener = "closed"
    /\ handlers # EmptyBag

\* C9: a wait that got no code and no error from a callback or from the
\* server returns the timeout failure, every returned wait has one of the
\* outcomes code, error, timeout, and every wait returns.
C9_WaitTerminates ==
    /\ [](WfcReturned =>
            /\ wfcOut.kind \in {"code", "error", "timeout"}
            /\ wfcOut.kind # "timeout" =>
                  \/ wfcOut.src = "server" /\ server = "stopped"
                  \/ wfcOut.src = "handler" /\ accepted > 0)
    /\ (pc \in {"select", "parked"} ~> WfcReturned)

\* C9 witness: no request came and waitForCallback returned the timeout
C9_Witness ==
    /\ WfcReturned
    /\ wfcOut.kind = "timeout"
    /\ arrived = 0
    /\ flowErr = "waiting for callback"

\* C10: the authorization URL is opened or printed only once the address is
\* bound, so no callback finds the address not yet listening.
C10_BoundBeforeURL ==
    /\ urlShown => listener \in {"bound", "closed"}
    /\ ~early

\* C10 witness: a callback reached the bound address before server.Serve
\* was started
C10_Witness ==
    /\ pc = "serve"
    /\ urlShown
    /\ listener = "bound"
    /\ backlog > 0

(***************************************************************************)
(* Properties of the credential store and of the commands that use it      *)
(***************************************************************************)
\* C11: a record whose authMethod is not oauth is never handed to the
\* refresher by NewClient, whatever its tokenCreatedAt and tokenExpiresAt:
\* NewClient returns the token TokenForHost gave it, attempts no refresh,
\* sends nothing to the token endpoint and leaves the store as it was.
C11_StaticTokenNeverRefreshed ==
    (/\ last.op = "NewClient"
     /\ last.err = ""
     /\ Stored(last.pre, last.host, "auth_method") # "oauth") =>
        /\ ~last.attempted
        /\ last.posts = 0
        /\ last.token = Given
        /\ hostsFile = last.pre

\* C11 witness: NewClient on a static-token record that carries a refresh
\* token and an expiry 300 s in the past
C11_Witness ==
    /\ last.op = "NewClient"
    /\ last.err = ""
    /\ last.env = ""
    /\ Stored(last.pre, last.host, "auth_method") = "pat"
    /\ Stored(last.pre, last.host, "refresh_token") # ""
    /\ Stored(last.pre, last.host, "token_expires_at") = 700
    /\ last.token = "current-token"

\* C12: the set of hosts that have a record changes only by a successful
\* login for the host (auth.Login or auth.OAuthFlow), which adds its record,
\* and by a Logout of the host, which removes it; no other operation creates
\* or removes a host record.
C12_RecordsOnlyByLoginAndLogout ==
    [][\A h \in Hosts :
          (HasRecord(hostsFile', h) # HasRecord(hostsFile, h)) =>
              /\ last'.host = h
              /\ last'.err = ""
              /\ \/ last'.op \in {"Login", "OAuthFlow"} /\ HasRecord(hostsFile', h)
                 \/ last'.op = "Logout" /\ ~HasRecord(hostsFile', h)]_vars

\* OAuthFlow has saved the credentials of a successful OAuth login
LoginSaved ==
    /\ last.op = "OAuthFlow"
    /\ last.err = ""

\* C13: after a successful OAuth login the stored record of the host has
\* authMethod oauth, the access token and the refresh token of the code
\* exchange, and tokenExpiresAt = created_at + expires_in of that response.
C13_LoginStoresRefreshAndExpiry ==
    LoginSaved =>
        /\ Stored(hostsFile, last.host, "auth_method") = "oauth"
        /\ Stored(hostsFile, last.host, "token") = last.resp.access_token
        /\ Stored(hostsFile, last.host, "refresh_token") = last.resp.refresh_token
        /\ Stored(hostsFile, last.host, "token_expires_at")
              = last.resp.created_at + last.resp.expires_in

\* exchangeCode got a response from the token endpoint
Exchanged == exchange.reply.transport = "ok"

\* the outcome of exchangeCode for a response it goes on to parse
ParsedOrParseError ==
    \/ exchange.err = "parsing token response" /\ ~exchange.reply.json
    \/ /\ exchange.err = ""
       /\ exchange.reply.json
       /\ exchange.resp = exchange.reply.resp

ResolvedTwice ==
    /\ Resolved
    /\ last.op = "NewClient"
    /\ last.env = ""
    /\ last.prior.any

UsedStoredTokenInWindow ==
    /\ last.op \in {"NewClient", "API", "GetToken"}
    /\ last.err = ""
    /\ last.env = ""
    /\ Stored(last.pre, last.host, "auth_method") = "oauth"
    /\ InRefreshWindow

\* C15: every command that takes a stored OAuth token for the API goes
\* through the session resolver: with now >= tokenExpiresAt - 300 the token
\* is not used before a refresh has been attempted.
C15_EveryPathResolves == UsedStoredTokenInWindow => last.attempted

\* the resolver was handed a token that is not the stored token of the host
HandedOtherToken ==
    /\ Resolved
    /\ HasRecord(last.pre, last.host)
    /\ Given # Stored(last.pre, last.host, "token")

\* C16: handed a token that differs from the stored token of the host (an
\* override from GITLAB_TOKEN / GLAB_TOKEN), the resolver returns it
\* unchanged, sends nothing to the token endpoint and leaves the store
\* alone, expired stored record or not.
C16_OverrideSkipsRefresh ==
    HandedOtherToken =>
        /\ last.token = Given
        /\ last.posts = 0
        /\ hostsFile = last.pre

\* RefreshOAuthToken was called on a store it could read
RefreshCalled ==
    /\ last.op = "Refresh"
    /\ last.pre.kind # "corrupt"

\* C17: RefreshOAuthToken for a host without a stored record fails with 'no
\* configuration for host', and for a record with an empty refresh token
\* with 'no refresh token stored ... re-authenticate'; in both cases nothing
\* is sent to the token endpoint and the store is left as it was.
C17_RefreshPreconditions ==
    RefreshCalled =>
        /\ ~HasRecord(last.pre, last.host) =>
              /\ last.err = "no configuration for host"
              /\ last.posts = 0
              /\ hostsFile = last.pre
        /\ (/\ HasRecord(last.pre, last.host)
            /\ Stored(last.pre, last.host, "refresh_token") = "") =>
              /\ last.err = "no refresh token stored"
              /\ last.posts = 0
              /\ hostsFile = last.pre

\* C17 witness: the refresher refused an expired OAuth record that has no
\* refresh token
C17_Witness ==
    /\ RefreshCalled
    /\ Stored(last.pre, last.host, "auth_method") = "oauth"
    /\ Stored(last.pre, last.host, "token_expires_at") = 700
    /\ Stored(last.pre, last.host, "refresh_token") = ""
    /\ last.err = "no refresh token stored"
    /\ last.posts = 0

\* the failures the handler of waitForCallback reports
HandlerErrors ==
    {"state mismatch: possible CSRF attack", "authorization denied",
     "no authorization code received"}

\* C18: a callback with the state of the attempt and a non-empty error
\* parameter is an 'authorization denied' failure, one with the state of the
\* attempt, no error and no code is a 'no authorization code' failure, and
\* only a callback with the state of the attempt, no error and a non-empty
\* code yields a code (stated of the handler for the state of the attempt,
\* once that state is generated); a failure taken from a handler ends the
\* attempt with an error and no code exchange.
C18_CallbackErrorsSurface ==
    /\ pc = "browser" =>
          \A q \in Queries(ExpectedState) :
              LET h == Handler(q, ExpectedState) IN
              /\ (q.state = ExpectedState /\ q.error # "") =>
                    (h.send = "err" /\ h.value = "authorization denied")
              /\ (q.state = ExpectedState /\ q.error = "" /\ q.code = "") =>
                    (h.send = "err"
                     /\ h.value = "no authorization code received")
              /\ h.send = "code" <=>
                    (q.state = ExpectedState /\ q.error = "" /\ q.code # "")
    /\ \A h \in BagToSet(handlers) :
          /\ h.send = "code" => (h.verdict = "ok" /\ h.value # "")
          /\ h.send = "err" => h.value \in HandlerErrors
    /\ wfcOut.kind = "code" => wfcOut.value # ""
    /\ (WfcReturned /\ wfcOut.kind = "error") =>
          /\ wfcOut.src = "handler" => wfcOut.value \in HandlerErrors
          /\ pc = "idle"
          /\ flowErr = "waiting for callback"
          /\ exchange = NoExchange

\* C18 witness: the one callback of the attempt carried an error of the
\* provider and the login failed with 'authorization denied'
C18_Witness ==
    /\ WfcReturned
    /\ arrived = 1
    /\ wfcOut.kind = "error"
    /\ wfcOut.value = "authorization denied"
    /\ wfcOut.state = ExpectedState
    /\ flowErr = "waiting for callback"

RefresherFailed ==
    \/ last.op = "Refresh" /\ last.err # ""
    \/ RefreshFailed

\* C28: when RefreshOAuthToken fails (no refresh token, transport error,
\* non-2xx response, malformed body) hosts.json is as it was before the call:
\* the record of the host, with its tokens and timestamps, and the records
\* of the other hosts.
C28_FailedRefreshLeavesStore ==
    RefresherFailed => hostsFile = last.pre

\* C28 witness: the endpoint answered 401 to the refresh of one of two
\* stored records
C28_Witness ==
    /\ last.op = "Refresh"
    /\ last.err = "token refresh failed (HTTP 401)"
    /\ last.posts = 1
    /\ last.pre.kind = "json"
    /\ DOMAIN last.pre.data = Hosts
    /\ Stored(hostsFile, last.host, "refresh_token") = "refresh-token"
    /\ Stored(hostsFile, last.host, "token") = "current-token"

\* C29: a token login for a host that already has a record keeps the
\* per-host settings of the record (client_id, redirect_uri, protocol,
\* api_host) and changes only its token, user and auth method.
C29_TokenLoginKeepsSettings ==
    (/\ last.op = "Login"
     /\ last.err = ""
     /\ HasRecord(last.pre, last.host)) =>
        \A f \in HostKeys :
            Stored(hostsFile, last.host, f) = Stored(last.pre, last.host, f)

\* C30: a login or a per-host config-set for one host leaves the record of
\* every other host as it was, and a store that exists but cannot be read
\* or parsed is not rewritten.
C30_OtherHostsUntouched ==
    last.op \in {"Login", "SetHostValue", "OAuthFlow"} =>
        /\ \A b \in Hosts \ {last.host} :
              HasRecord(last.pre, b) =>
                  /\ HasRecord(hostsFile, b)
                  /\ hostsFile.data[b] = last.pre.data[b]
        /\ last.pre.kind = "corrupt" => hostsFile = last.pre

\* OAuthFlow has returned
FlowReturned == pc = "idle" /\ attempt > 0

\* C26: whenever OAuthFlow has returned after net.Listen succeeded, the
\* listener is closed; and when it returned because the PKCE verifier or the
\* state could not be generated, the authorization URL was not shown.
C26_ListenerClosedOnEveryReturn ==
    FlowReturned =>
        /\ listener \in {"none", "closed"}
        /\ flowErr \in {"generating PKCE verifier", "generating state"} =>
              ~urlShown

\* base64url without padding, read back: four characters give three bytes, a
\* last group of two or three characters gives one or two
RECURSIVE DecodeRawURL(_)
DecodeRawURL(s) ==
    LET n(k) == (CHOOSE i \in 1..64 : encodeURL[i] = s[k]) - 1 IN
    IF Len(s) < 2 THEN <<>>
    ELSE IF Len(s) = 2 THEN <<n(1) * 4 + n(2) \div 16>>
    ELSE IF Len(s) = 3
    THEN <<n(1) * 4 + n(2) \div 16, (n(2) % 16) * 16 + n(3) \div 4>>
    ELSE <<n(1) * 4 + n(2) \div 16, (n(2) % 16) * 16 + n(3) \div 4,
           (n(3) % 4) * 64 + n(4)>> \o DecodeRawURL(SubSeq(s, 5, Len(s)))

Unpadded(s) == \A i \in 1..Len(s) : s[i] # "="

\* C22: the authorization URL of an attempt carries method S256 and, as
\* code_challenge, the unpadded base64url text of the SHA-256 digest of the
\* verifier of that attempt; the token exchange of the attempt posts that
\* same verifier; verifier and state are generated by the attempt itself,
\* and the verifier differs from the one of the attempt before.  The digest
\* is compared where the URL has just been built: neither the verifier nor
\* the challenge of an attempt changes after that
C22_ChallengeMatchesVerifier ==
    /\ urlShown =>
          /\ pkce.url.code_challenge_method = "S256"
          /\ pkce.url.state = ExpectedState
          /\ pkce.made = {"verifier", "state"}
          /\ pkce.verifier # pkce.prev
          /\ pkce.url.code_challenge = pkce.challenge
    /\ pc = "serve" =>
          /\ Unpadded(pkce.challenge)
          /\ DecodeRawURL(pkce.challenge) = Sum256(Bytes(pkce.verifier))
    /\ exchange.posts = 1 => (urlShown /\ pkce.sent = pkce.verifier)

C22_Witness ==
    /\ attempt = 2
    /\ pkce.prev # <<>>
    /\ exchange.posts = 1
    /\ pkce.sent = codeVerifierOf[2]
    /\ pkce.url.code_challenge_method = "S256"

\* C27: whatever the path of the redirect URI, the empty one included, a
\* request on another path than the callback path never ends the wait: where
\* no other request is made, waitForCallback returns nothing that a handler
\* sent
C27_OtherPathNeverEndsWait == wfcOut.src # "handler"

\* a client can be made for the host: a token is found for it
Authenticated(file, env, host) == host # "" /\ TokenForHost(file, env, host) # ""

\* C23: with no --repo override, Factory.Client takes the host of the git
\* remote if a client can be made for it, otherwise the default host,
\* otherwise the first stored host in the visiting order that a client can
\* be made for, and returns an error only when all three fail
C23_HostResolutionOrder ==
    (last.op = "FactoryClient" /\ last.given = "") =>
        LET ok(h) == Authenticated(last.pre, last.env, h)
            stored == DOMAIN LoadHosts(last.pre).hosts
        IN  IF ok(last.remote) THEN last.err = "" /\ last.host = last.remote
            ELSE IF ok(DefaultHost)
            THEN last.err = "" /\ last.host = DefaultHost
            ELSE IF \E h \in stored : ok(h)
            THEN /\ last.err = ""
                 /\ \E i \in DOMAIN last.order :
                       /\ last.host = last.order[i]
                       /\ ok(last.order[i])
                       /\ \A k \in 1..(i - 1) : ~ok(last.order[k])
            ELSE last.err # ""

\* the third choice is taken: no client for the remote nor for the default
\* host, one for a stored host
C23_Witness ==
    /\ last.op = "FactoryClient"
    /\ last.given = ""
    /\ last.remote = "gitlab.com"
    /\ ~Authenticated(last.pre, last.env, DefaultHost)
    /\ last.host = "gitlab.test.local"
    /\ last.err = ""
    /\ last.token # ""

\* C25: with no token in the environment GetStatus returns one status for
\* each stored host and no other, each with the auth method and the token
\* expiry of the record (0 for a personal access token) and the token only
\* masked; with no stored host it returns an error and no list
C25_StatusPerStoredHost ==
    (last.op = "GetStatus" /\ last.env = "") =>
        LET ld == LoadHosts(last.pre) IN
        IF ld.err \/ DOMAIN ld.hosts = {}
        THEN last.err # "" /\ last.statuses = {}
        ELSE /\ last.err = ""
             /\ Cardinality(last.statuses) = Cardinality(DOMAIN ld.hosts)
             /\ \A h \in DOMAIN ld.hosts : \E s \in last.statuses :
                   /\ s.Host = h
                   /\ s.Token = maskToken(TokenText(ld.hosts[h].token))
                   /\ s.Token # TokenText(ld.hosts[h].token)
                   /\ "AuthMethod" \in DOMAIN s
                   /\ s.AuthMethod = ld.hosts[h].auth_method
                   /\ "TokenExpiresAt" \in DOMAIN s
                   /\ s.TokenExpiresAt = ld.hosts[h].token_expires_at

\* C24: a config set of a valid key that succeeded is on disk: the config
\* loaded afterwards holds the value, and a config get of the key or a config
\* list in the next invocation gives it
C24_ConfigSetPersists ==
    /\ (last.op = "ConfigSet" /\ last.err = "") =>
          ConfigLoad(configFile).cfg[last.key] = last.value
    /\ (last.op = "ConfigGet" /\ last.after.key = last.key) =>
          (last.err = "" /\ last.out = last.after.value)
    /\ (last.op = "ConfigList" /\ last.after.key # "") =>
          (last.err = "" /\ last.out[last.after.key] = last.after.value)

\* the record of a host in a hosts.json, if it has one
RecordOf(file, h) ==
    [has |-> HasRecord(file, h),
     hc |-> IF HasRecord(file, h) THEN LoadHosts(file).hosts[h]
            ELSE HostConfig]

\* C21: a save replaces hosts.json by the map the invocation loaded, with
\* its own update, and nothing keeps two invocations from holding a loaded
\* map at once: when another invocation has saved since the load, the
\* records of the other hosts are written back as they were loaded, not as
\* the other invocation left them
C21_SaveRewritesWhatWasLoaded ==
    (last.op = "Save" /\ last.err = "") =>
        /\ hostsFile = Outcome(last.update, last.read, now).file
        /\ \A h \in Hosts \ {last.update.host} :
              RecordOf(hostsFile, h) = RecordOf(last.read, h)

\* a lost update: the record of another host, as the other invocation had
\* just saved it, is gone from the file after this save
C21_Witness ==
    /\ last.op = "Save"
    /\ last.err = ""
    /\ last.stale
    /\ \E h \in Hosts \ {last.update.host} :
          /\ RecordOf(last.before, h) # RecordOf(last.read, h)
          /\ RecordOf(hostsFile, h) = RecordOf(last.read, h)
====
